---- MODULE Spec2Model ----
(***************************************************************************)
(* Model of terraform.py: the block locator (extract_block_content), the   *)
(* brace scan at its end, and the edit commit (edit_block_content) as it   *)
(* is driven from the 'e' key handler of main.                             *)
(*                                                                         *)
(* A text is a sequence of lexemes.  A lexeme is a piece of text that the  *)
(* regular expressions of the source never split: a keyword, a quoted      *)
(* name (quotes included), a bare identifier, one whitespace character,    *)
(* one brace, one equals sign.  Offsets are 0-based as in Python and       *)
(* count lexemes; text[i] of the source is text[i + 1] here.               *)
(***************************************************************************)
EXTENDS Integers, Sequences, FiniteSets, TLC

VARIABLES
    doc,              \* the blocks the file was written from (ground truth of the input)
    raw_content,      \* terraform_data[file + "_raw"]: the in-memory text
    disk,             \* the content of the file on disk
    block_type,       \* the kind requested from extract_block_content
    block_name,       \* the identity requested from extract_block_content
    block_content,    \* what extract_block_content returned
    original_content, \* edit_block_content: the file as read at commit time
    edited_content,   \* edit_block_content: the text read back from the editor
    success,          \* edit_block_content: "none" before it returns, then "ok" / "fail"
    modified,         \* whether the file was changed externally during the edit
    pc,               \* position of the program
    open_brace_pos,   \* brace scan: offset of the opening brace
    bracket_count,    \* brace scan: depth counter
    current_idx,      \* brace scan: offset of the last character looked at
    last_read,        \* brace scan: greatest offset read so far (-1: none)
    dir,              \* the files of the directory, in os.listdir order
    terraform_data,   \* main: what parse_terraform_files returned
    calls,            \* the calls of extract_fallback_structure so far: text and result
    selected,         \* the file or category whose entries the last frame listed
    view_items,       \* the entries the last frame listed in its second column
    save_items,       \* the entries the save action listed
    screen,           \* the terminal: "curses", or "suspended" after endwin
    view,             \* main: 1 file view, 2 category view, 3 module view
    selected_index,   \* main: index into the first column's list
    selected_block_index, \* main: index into the second column's list, -1 for none
    active_column,    \* main: 0 files, 1 blocks, 2 content
    file_scroll_offset,   \* main: first row shown of the first column
    block_scroll_offset   \* main: first row shown of the second column

vars == <<doc, raw_content, disk, block_type, block_name, block_content,
          original_content, edited_content, success, modified, pc,
          open_brace_pos, bracket_count, current_idx, last_read,
          dir, terraform_data, calls, selected, view_items, save_items, screen,
          view, selected_index, selected_block_index, active_column,
          file_scroll_offset, block_scroll_offset>>

scanVars == <<open_brace_pos, bracket_count, current_idx, last_read>>
editVars == <<original_content, edited_content, success, modified>>
loadVars == <<dir, terraform_data, calls>>
listVars == <<selected, view_items, save_items>>
navVars == <<view, selected_index, selected_block_index, active_column,
             file_scroll_offset, block_scroll_offset>>

(***************************************************************************)
(* Bounds of the model.                                                    *)
(***************************************************************************)
MaxBlocks == 2      \* blocks per document
MaxDepth == 3       \* nesting below the brace of a terraform / locals block
MaxScanLen == 6     \* length of the texts the brace scan is run on
MaxCalls == 3       \* calls of extract_fallback_structure before the last reload

(***************************************************************************)
(* Lexemes.                                                                *)
(***************************************************************************)
WS == {" ", "\n"}

Names == {"a", "b", "t"}

DQ(n) == CASE n = "a" -> "\"a\"" [] n = "b" -> "\"b\"" [] n = "t" -> "\"t\""
           [] n = "x" -> "\"x\"" [] OTHER -> "\"\""

SQ(n) == CASE n = "a" -> "'a'" [] n = "b" -> "'b'" [] n = "t" -> "'t'"
           [] n = "x" -> "'x'" [] OTHER -> "''"

AllNames == Names \cup {"x"}

\* a name that is no regular expression when it is put into one unescaped:
\* its parenthesis is never closed
MetaNames == {"a("}
DQuoted == {DQ(n) : n \in AllNames}
SQuoted == {SQ(n) : n \in AllNames}

\* the other lexemes of the alphabet that start, or end, with a name: an
\* expression that is not anchored after, or before, the name matches them too
StartingWith(n) == IF n = "t" THEN {"terraform"} ELSE {}
EndingWith(n) == IF n = "a" THEN {"data"} ELSE IF n = "t" THEN {"output"} ELSE {}

Min(a, b) == IF a < b THEN a ELSE b

\* the least element of a set of offsets, or -1 for the empty set
Least(S) == IF S = {} THEN -1 ELSE CHOOSE i \in S : \A j \in S : i <= j

\* text[i] of the source, for an offset inside the text
At(text, i) == text[i + 1]

\* text[i:j] of the source
Slice(text, i, j) == SubSeq(text, i + 1, j)

(***************************************************************************)
(* Regular expressions without alternation: a sequence of items, each a    *)
(* set of lexemes with a quantifier "1", "+" or "*".  MatchFrom gives the  *)
(* end offset of re's match starting at offset i (greedy, backtracking),   *)
(* or -1.                                                                  *)
(***************************************************************************)
One(s) == [s |-> s, q |-> "1"]
Plus(s) == [s |-> s, q |-> "+"]
Star(s) == [s |-> s, q |-> "*"]

RECURSIVE RunLen(_, _, _)
RunLen(text, i, s) ==
    IF i < Len(text) /\ At(text, i) \in s THEN 1 + RunLen(text, i + 1, s) ELSE 0

RECURSIVE MatchFrom(_, _, _, _)
RECURSIVE TryDown(_, _, _, _, _, _)
MatchFrom(text, i, items, k) ==
    IF k > Len(items) THEN i
    ELSE LET it == items[k] IN
         IF it.q = "1"
         THEN IF i < Len(text) /\ At(text, i) \in it.s
              THEN MatchFrom(text, i + 1, items, k + 1)
              ELSE -1
         ELSE TryDown(text, i, items, k, RunLen(text, i, it.s),
                      IF it.q = "+" THEN 1 ELSE 0)

TryDown(text, i, items, k, n, lo) ==
    IF n < lo THEN -1
    ELSE LET r == MatchFrom(text, i + n, items, k + 1) IN
         IF r # -1 THEN r ELSE TryDown(text, i, items, k, n - 1, lo)

\* re.search from offset `from`: the leftmost match, as <<start, end>>, or <<-1, -1>>
SearchFrom(text, items, from) ==
    LET i == Least({p \in from..Len(text) : MatchFrom(text, p, items, 1) # -1}) IN
    IF i = -1 THEN <<-1, -1>> ELSE <<i, MatchFrom(text, i, items, 1)>>

\* list(re.finditer(pattern, text)): the non-overlapping matches, left to right
RECURSIVE FindIter(_, _, _)
FindIter(text, items, from) ==
    LET m == SearchFrom(text, items, from) IN
    IF m[1] = -1 THEN <<>>
    ELSE <<m>> \o FindIter(text, items, IF m[2] > m[1] THEN m[2] ELSE m[2] + 1)

(***************************************************************************)
(* The brace-balanced expression of lines 133, 138, 148 and 156:           *)
(*   KW\s*{(?:[^{}]|{(?:[^{}]|{[^{}]*})*})*}                               *)
(* It spells out the nesting: RegexNestDepth levels of braces inside the   *)
(* block's own.  The alternatives start with different characters and      *)
(* none starts with "}", so the match at a given start is unique.          *)
(***************************************************************************)
RegexNestDepth == 2

\* where (?:[^{}]|{...})* stops when started at offset i, `depth` levels left
RECURSIVE BodyEnd(_, _, _)
BodyEnd(text, i, depth) ==
    IF i >= Len(text) THEN i
    ELSE LET c == At(text, i) IN
         IF c \notin {"{", "}"} THEN BodyEnd(text, i + 1, depth)
         ELSE IF c = "{" /\ depth > 0
              THEN LET j == BodyEnd(text, i + 1, depth - 1) IN
                   IF j < Len(text) /\ At(text, j) = "}"
                   THEN BodyEnd(text, j + 1, depth)
                   ELSE i
              ELSE i

\* the end offset of the expression's match starting at offset i, or -1
BlockRegexFrom(text, i, kw) ==
    IF i < Len(text) /\ At(text, i) = kw
    THEN LET j == i + 1 + RunLen(text, i + 1, WS) IN
         IF j < Len(text) /\ At(text, j) = "{"
         THEN LET e == BodyEnd(text, j + 1, RegexNestDepth) IN
              IF e < Len(text) /\ At(text, e) = "}" THEN e + 1 ELSE -1
         ELSE -1
    ELSE -1

\* re.search(pattern, text, re.DOTALL)
BlockRegexSearch(text, kw, from) ==
    LET i == Least({p \in from..(Len(text) - 1) : BlockRegexFrom(text, p, kw) # -1}) IN
    IF i = -1 THEN <<-1, -1>> ELSE <<i, BlockRegexFrom(text, i, kw)>>

\* list(re.finditer(pattern, text, re.DOTALL))
RECURSIVE BlockRegexFindIter(_, _, _)
BlockRegexFindIter(text, kw, from) ==
    LET m == BlockRegexSearch(text, kw, from) IN
    IF m[1] = -1 THEN <<>> ELSE <<m>> \o BlockRegexFindIter(text, kw, m[2])

(***************************************************************************)
(* The results that are no block text.  The source returns them as         *)
(* strings, like a block's text; each is one lexeme here.                  *)
(***************************************************************************)
NotFound == <<"Block content not found">>
NotFoundEquals == <<"Block content not found (equals sign expected)">>
NotFoundNoBrace == <<"Block content not found (no opening brace)">>
NotFoundIncomplete == <<"Block content not found (incomplete block)">>
NotFoundResults == {NotFound, NotFoundEquals, NotFoundNoBrace, NotFoundIncomplete}

IsFound(r) == r \notin NotFoundResults

\* re.error leaving extract_block_content: no value is returned
Raised == <<"<re.error>">>

\* lines 188-207 and 233 put the name into the expressions as it is, and
\* line 217 compiles the first of them; line 171 escapes the name first
Compiles(name) == name \notin MetaNames

(***************************************************************************)
(* Lines 129-152: the terraform kind.                                      *)
(***************************************************************************)
ExtractTerraform(raw, name) ==
    LET terraform_match == BlockRegexSearch(raw, "terraform", 0) IN
    IF terraform_match[1] = -1 THEN NotFound
    ELSE LET terraform_content == Slice(raw, terraform_match[1], terraform_match[2]) IN
         IF name = "required_providers"
         THEN LET required_match ==
                      BlockRegexSearch(terraform_content, "required_providers", 0) IN
              IF required_match[1] # -1
              THEN Slice(terraform_content, required_match[1], required_match[2])
              ELSE terraform_content
         ELSE terraform_content

(***************************************************************************)
(* Lines 155-178: the locals kind.  var_pattern is                         *)
(* ["']?NAME["']?\s*= : the name bare or quoted, then an equals sign.      *)
(***************************************************************************)
VarPattern(name) ==
    <<One({name, DQ(name), SQ(name)} \cup EndingWith(name)), Star(WS), One({"="})>>

\* the first match whose text holds the variable, or 0
RECURSIVE FirstWithVar(_, _, _, _)
FirstWithVar(raw, matches, k, name) ==
    IF k > Len(matches) THEN 0
    ELSE LET locals_content == Slice(raw, matches[k][1], matches[k][2]) IN
         IF SearchFrom(locals_content, VarPattern(name), 0)[1] # -1
         THEN k
         ELSE FirstWithVar(raw, matches, k + 1, name)

ExtractLocals(raw, name) ==
    LET matches == BlockRegexFindIter(raw, "locals", 0)
        first == IF Len(matches) > 0
                 THEN Slice(raw, matches[1][1], matches[1][2])
                 ELSE NotFound
    IN  IF Len(matches) = 1 \/ name = ""
        THEN first
        ELSE LET k == FirstWithVar(raw, matches, 1, name) IN
             IF k # 0 THEN Slice(raw, matches[k][1], matches[k][2]) ELSE first

(***************************************************************************)
(* Lines 185-209: the patterns, in the order of the list.  `eq` is what    *)
(* line 253 asks of the pattern kept: whether its source holds "=".        *)
(* The second pattern is written \\s in a raw string: it asks for a        *)
(* backslash and a run of the letter s between the two names.              *)
(***************************************************************************)
Pat(items, eq) == [items |-> items, eq |-> eq]

BasePatterns(kind, name) ==
    << Pat(<<One({kind}), Plus(WS), One({DQ(name)}), Star(WS), One({"{"})>>, FALSE),
       Pat(<<One({kind}), Plus(WS), One(DQuoted \cup SQuoted), One({"\\"}),
             Plus({"s"}), One({DQ(name)}), Star(WS), One({"{"})>>, FALSE),
       Pat(<<One({kind}), Plus(WS), One({name}), Star(WS), One({"{"})>>, FALSE),
       Pat(<<One({kind}), Plus(WS), One({DQ(name)}), Star(WS), One({"="})>>, TRUE),
       Pat(<<One({kind}), Plus(WS), One({name}), Star(WS), One({"="})>>, TRUE),
       Pat(<<One({kind}), Plus(WS), One({SQ(name)}), Star(WS), One({"{"})>>, FALSE),
       Pat(<<One({kind}), Plus(WS), One({SQ(name)}), Star(WS), One({"="})>>, TRUE) >>

ResourcePatterns(name) ==
    << Pat(<<One({"resource"}), Plus(WS), One({DQ(name)}), Plus(WS), One(DQuoted),
             Star(WS), One({"{"})>>, FALSE),
       Pat(<<One({"resource"}), Plus(WS), One(DQuoted), Plus(WS), One({DQ(name)}),
             Star(WS), One({"{"})>>, FALSE) >>

PatternsNoResourceCase(kind, name) == BasePatterns(kind, name)

Patterns(kind, name) ==
    IF kind = "resource"
    THEN BasePatterns(kind, name) \o ResourcePatterns(name)
    ELSE BasePatterns(kind, name)

(***************************************************************************)
(* Lines 211-228: the match kept.  A state of the loops is                 *)
(* [start_idx, matched]: matched is "none", "brace" or "equals".           *)
(***************************************************************************)
NoMatch == [start_idx |-> -1, matched |-> "none"]

\* the update of one match that keeps the first match found
KeepFirstFound(acc, potential_start, pattern) ==
    IF acc.start_idx = -1
    THEN [start_idx |-> potential_start,
          matched |-> IF pattern.eq THEN "equals" ELSE "brace"]
    ELSE acc

\* line 225: the update of one match
KeepEarliest(acc, potential_start, pattern) ==
    IF acc.start_idx = -1 \/ potential_start < acc.start_idx
    THEN [start_idx |-> potential_start,
          matched |-> IF pattern.eq THEN "equals" ELSE "brace"]
    ELSE acc

\* lines 218-228: the inner loop over one pattern's matches
RECURSIVE OverMatches(_, _, _, _)
OverMatches(matches, j, pattern, acc) ==
    IF j > Len(matches) THEN acc
    ELSE OverMatches(matches, j + 1, pattern,
                     KeepEarliest(acc, matches[j][1], pattern))

\* lines 216-228: the outer loop over the patterns
RECURSIVE OverPatterns(_, _, _, _)
OverPatterns(raw, patterns, k, acc) ==
    IF k > Len(patterns) THEN acc
    ELSE OverPatterns(raw, patterns, k + 1,
                      OverMatches(FindIter(raw, patterns[k].items, 0), 1,
                                  patterns[k], acc))

(***************************************************************************)
(* Lines 230-250: the flexible pattern,                                    *)
(*   (?:^|\n)\s*KIND\s+(?:"[^"]*"\s+)?(?:"?NAME"?|'?NAME'?)                *)
(* searched with re.MULTILINE.  The optional quoted type is tried present  *)
(* first.  The match starts at the line start or ON the newline before     *)
(* the block, and takes the whitespace before the keyword into it.         *)
(***************************************************************************)
FlexNames(name) == {name, DQ(name), SQ(name)} \cup StartingWith(name)

FlexWithType(kind, name) ==
    <<Star(WS), One({kind}), Plus(WS), One(DQuoted), Plus(WS), One(FlexNames(name))>>
FlexNoType(kind, name) ==
    <<Star(WS), One({kind}), Plus(WS), One(FlexNames(name))>>

FlexTail(raw, i, kind, name) ==
    LET e == MatchFrom(raw, i, FlexWithType(kind, name), 1) IN
    IF e # -1 THEN e ELSE MatchFrom(raw, i, FlexNoType(kind, name), 1)

\* ^ under re.MULTILINE
LineStart(text, i) == i = 0 \/ At(text, i - 1) = "\n"

\* the end of the flexible pattern's match starting at offset i, or -1
FlexFrom(raw, i, kind, name) ==
    LET viaCaret == IF LineStart(raw, i) THEN FlexTail(raw, i, kind, name) ELSE -1 IN
    IF viaCaret # -1 THEN viaCaret
    ELSE IF i < Len(raw) /\ At(raw, i) = "\n"
         THEN FlexTail(raw, i + 1, kind, name)
         ELSE -1

\* re.search(flexible_pattern, raw_content, re.MULTILINE)
FlexSearch(raw, kind, name, from) ==
    LET i == Least({p \in from..Len(raw) : FlexFrom(raw, p, kind, name) # -1}) IN
    IF i = -1 THEN <<-1, -1>> ELSE <<i, FlexFrom(raw, i, kind, name)>>

\* lines 239-241: the first offset at or after pos holding one of `chars`, or len
SkipTo(raw, pos, chars) ==
    LET i == Least({p \in pos..(Len(raw) - 1) : At(raw, p) \in chars}) IN
    IF i = -1 THEN Len(raw) ELSE i

FlexibleMatch(raw, kind, name) ==
    LET match == FlexSearch(raw, kind, name, 0) IN
    IF match[1] = -1 THEN NoMatch
    ELSE LET pos == SkipTo(raw, match[2], {"{", "="}) IN
         [start_idx |-> match[1],
          matched |-> IF pos < Len(raw)
                      THEN (IF At(raw, pos) = "=" THEN "equals" ELSE "brace")
                      ELSE "none"]

\* lines 211-228 alone: the listed patterns without the flexible one
FindStartListed(raw, kind, name) == OverPatterns(raw, Patterns(kind, name), 1, NoMatch)

\* lines 211-250: start_idx and matched_pattern after both strategies
FindStart(raw, kind, name) ==
    LET byPattern == OverPatterns(raw, Patterns(kind, name), 1, NoMatch) IN
    IF byPattern.start_idx # -1 THEN byPattern ELSE FlexibleMatch(raw, kind, name)

\* line 253
is_equals_block(m) == m.matched = "equals"

(***************************************************************************)
(* Lines 255-277: an equals-style block runs to the next block keyword at  *)
(* a line start, found by                                                  *)
(*   (?:^|\n)\s*(resource|provider|variable|output|locals|module|data)\s+  *)
(* in raw_content[eq_pos:].                                                *)
(***************************************************************************)
NextBlockKinds ==
    {"resource", "provider", "variable", "output", "locals", "module", "data"}

NextBlockTail == <<Star(WS), One(NextBlockKinds), Plus(WS)>>

NextBlockFrom(text, i) ==
    \/ LineStart(text, i) /\ MatchFrom(text, i, NextBlockTail, 1) # -1
    \/ i < Len(text) /\ At(text, i) = "\n"
         /\ MatchFrom(text, i + 1, NextBlockTail, 1) # -1

\* next_match.start(), or -1
NextBlockSearch(text, from) ==
    Least({p \in from..Len(text) : NextBlockFrom(text, p)})

\* raw.rfind("\n", 0, end): the last newline before offset end, or -1
RFindNewline(raw, end) ==
    LET S == {p \in 0..(end - 1) : At(raw, p) = "\n"} IN
    IF S = {} THEN -1 ELSE CHOOSE i \in S : \A j \in S : j <= i

\* str.strip()
RECURSIVE LStrip(_)
LStrip(text) ==
    IF Len(text) > 0 /\ Head(text) \in WS THEN LStrip(Tail(text)) ELSE text
RECURSIVE RStrip(_)
RStrip(text) ==
    IF Len(text) > 0 /\ text[Len(text)] \in WS
    THEN RStrip(SubSeq(text, 1, Len(text) - 1))
    ELSE text
Strip(text) == RStrip(LStrip(text))

\* lines 258-277, running to the end of the text whatever follows
ExtractEqualsToEnd(raw, start_idx) ==
    LET eq_pos == SkipTo(raw, start_idx, {"="}) IN
    IF eq_pos >= Len(raw) THEN NotFoundEquals
    ELSE Strip(Slice(raw, start_idx, Len(raw)))

\* lines 258-277
ExtractEquals(raw, start_idx) ==
    LET eq_pos == SkipTo(raw, start_idx, {"="}) IN
    IF eq_pos >= Len(raw) THEN NotFoundEquals
    ELSE LET next_match == NextBlockSearch(Slice(raw, eq_pos, Len(raw)), 0)
             last_newline == RFindNewline(raw, eq_pos + next_match)
             end_idx == IF next_match # -1
                        THEN (IF last_newline > start_idx
                              THEN last_newline
                              ELSE eq_pos + next_match)
                        ELSE Len(raw)
         IN  Strip(Slice(raw, start_idx, end_idx))

(***************************************************************************)
(* Lines 281-288: the opening brace, looked for in a window after the      *)
(* match start.                                                            *)
(***************************************************************************)
LookAhead == 200

FindOpenBrace(raw, i, limit) ==
    Least({p \in i..(limit - 1) : At(raw, p) = "{"})

(***************************************************************************)
(* Lines 290-307: the brace scan.  A state of the loop is                  *)
(* [bracket_count, current_idx, last_read]; last_read is the greatest      *)
(* offset the loop has indexed the text with.  Indexing at or past the     *)
(* end of the text raises IndexError in the source: ReadAt gives "<oob>".  *)
(***************************************************************************)
ReadAt(text, i) == IF 0 <= i /\ i < Len(text) THEN At(text, i) ELSE "<oob>"

ScanStart(open) == [bracket_count |-> 1, current_idx |-> open, last_read |-> -1]

\* line 295, with the end of the text read one too far
ScanGuardOffByOne(text, st) == st.bracket_count > 0 /\ st.current_idx < Len(text)

\* line 295
ScanGuard(text, st) == st.bracket_count > 0 /\ st.current_idx < Len(text) - 1

\* lines 296-300, taking no account of nested opening braces
ScanStepFlat(text, st) ==
    LET i == st.current_idx + 1
        c == ReadAt(text, i)
    IN  [bracket_count |-> IF c = "}" THEN st.bracket_count - 1 ELSE st.bracket_count,
         current_idx |-> i,
         last_read |-> IF i > st.last_read THEN i ELSE st.last_read]

\* lines 296-300
ScanStepFn(text, st) ==
    LET i == st.current_idx + 1
        c == ReadAt(text, i)
    IN  [bracket_count |-> IF c = "{" THEN st.bracket_count + 1
                           ELSE IF c = "}" THEN st.bracket_count - 1
                           ELSE st.bracket_count,
         current_idx |-> i,
         last_read |-> IF i > st.last_read THEN i ELSE st.last_read]

RECURSIVE ScanLoop(_, _)
ScanLoop(text, st) ==
    IF ScanGuard(text, st) THEN ScanLoop(text, ScanStepFn(text, st)) ELSE st

\* lines 302-307
ScanResult(raw, start_idx, st) ==
    IF st.bracket_count = 0
    THEN Slice(raw, start_idx, st.current_idx + 1)
    ELSE NotFoundIncomplete

ExtractBraces(raw, start_idx) ==
    LET open == FindOpenBrace(raw, start_idx, Min(start_idx + LookAhead, Len(raw))) IN
    IF open = -1 THEN NotFoundNoBrace
    ELSE ScanResult(raw, start_idx, ScanLoop(raw, ScanStart(open)))

(***************************************************************************)
(* Lines 117-307.                                                          *)
(***************************************************************************)
extract_block_content(raw, kind, name) ==
    IF kind = "terraform" THEN ExtractTerraform(raw, name)
    ELSE IF kind = "locals" THEN ExtractLocals(raw, name)
    ELSE IF ~Compiles(name) THEN Raised
    ELSE LET m == FindStart(raw, kind, name) IN
         IF m.start_idx = -1 THEN NotFound
         ELSE IF is_equals_block(m) THEN ExtractEquals(raw, m.start_idx)
         ELSE ExtractBraces(raw, m.start_idx)

(***************************************************************************)
(* Lines 352-368 of edit_block_content: `in`, str.replace, and the commit. *)
(***************************************************************************)
\* sub in s
Contains(s, sub) ==
    \E i \in 0..(Len(s) - Len(sub)) : SubSeq(s, i + 1, i + Len(sub)) = sub

\* s.replace(old, new, 1): the first occurrence only
RECURSIVE ReplaceFirst(_, _, _)
ReplaceFirst(s, old, new) ==
    IF Len(s) < Len(old) THEN s
    ELSE IF SubSeq(s, 1, Len(old)) = old
         THEN new \o SubSeq(s, Len(old) + 1, Len(s))
         ELSE <<Head(s)>> \o ReplaceFirst(Tail(s), old, new)

\* s.replace(old, ""): every occurrence cut out
RECURSIVE ReplaceDropping(_, _, _)
ReplaceDropping(s, old, new) ==
    IF Len(s) < Len(old) \/ old = <<>> THEN s
    ELSE IF SubSeq(s, 1, Len(old)) = old
         THEN ReplaceDropping(SubSeq(s, Len(old) + 1, Len(s)), old, new)
         ELSE <<Head(s)>> \o ReplaceDropping(Tail(s), old, new)

\* s.replace(old, new): every non-overlapping occurrence, left to right
RECURSIVE ReplaceAll(_, _, _)
ReplaceAll(s, old, new) ==
    IF old = <<>>
    THEN (IF s = <<>> THEN new ELSE new \o <<Head(s)>> \o ReplaceAll(Tail(s), old, new))
    ELSE IF Len(s) < Len(old) THEN s
    ELSE IF SubSeq(s, 1, Len(old)) = old
         THEN new \o ReplaceAll(SubSeq(s, Len(old) + 1, Len(s)), old, new)
         ELSE <<Head(s)>> \o ReplaceAll(Tail(s), old, new)

\* lines 357-368, writing the file whether or not the block was located
CommitUnchecked(original, content, edited) ==
    [success |-> TRUE, written |-> TRUE,
     new_content |-> ReplaceAll(original, content, edited)]

\* lines 357-368: [success, written, new_content]; the file is written only
\* on the first branch
Commit(original, content, edited) ==
    IF Contains(original, content)
    THEN [success |-> TRUE, written |-> TRUE,
          new_content |-> ReplaceAll(original, content, edited)]
    ELSE [success |-> FALSE, written |-> FALSE, new_content |-> original]

(***************************************************************************)
(* The documents.  A block is [kind, type, name, depth, text]; a document  *)
(* is a sequence of blocks, written to the file one per line.              *)
(***************************************************************************)
Block(kind, type, name, depth, text) ==
    [kind |-> kind, type |-> type, name |-> name, depth |-> depth, text |-> text]

PlainBody == <<" ", "x", " ", "=", " ", "1", " ">>
NestedBody == <<" ", "x", " ", "=", " ", "{", " ", "}", " ">>

TwoNameBlock(kind, type, name, nested) ==
    Block(kind, type, name, IF nested THEN 2 ELSE 1,
          <<kind, " ", DQ(type), " ", DQ(name), " ", "{">>
              \o (IF nested THEN NestedBody ELSE PlainBody) \o <<"}">>)

\* resource and data blocks
FlatBlocks ==
    {TwoNameBlock("resource", t, n, nested) :
         t \in {"t", "b"}, n \in {"a", "b"}, nested \in BOOLEAN}
    \cup {TwoNameBlock("data", "t", n, FALSE) : n \in {"a", "b"}}

\* x { x { ... } } nested d deep; nothing for d = 0
RECURSIVE NestX(_)
NestX(d) ==
    IF d = 0 THEN <<>> ELSE <<"x", " ", "{", " ">> \o NestX(d - 1) \o <<"}", " ">>

\* required_providers { a = { } }
RequiredProvidersText ==
    <<"required_providers", " ", "{", " ", "a", " ", "=", " ", "{", " ", "}", " ", "}">>

\* terraform { [required_providers { a = { } }] [x { x { ... } }] }
TerraformBlock(rp, d) ==
    Block("terraform", "", IF rp THEN "required_providers" ELSE "",
          1 + (IF rp /\ d < 2 THEN 2 ELSE d),
          <<"terraform", " ", "{", " ">>
              \o (IF rp THEN RequiredProvidersText \o <<" ">> ELSE <<>>)
              \o NestX(d) \o <<"}">>)

\* 1, or { y = { y = ... 1 } } nested d deep
RECURSIVE NestValue(_)
NestValue(d) ==
    IF d = 0 THEN <<"1">> ELSE <<"{", " ", "y", " ", "=", " ">> \o NestValue(d - 1) \o <<" ", "}">>

\* locals { v = value }
LocalsBlock(v, d) ==
    Block("locals", "", v, 1 + d,
          <<"locals", " ", "{", " ", v, " ", "=", " ">> \o NestValue(d) \o <<" ", "}">>)

\* terraform and locals blocks, nested up to 1 + MaxDepth deep
NestedBlocks ==
    {TerraformBlock(rp, d) : rp \in BOOLEAN, d \in 0..MaxDepth}
    \cup {LocalsBlock(v, d) : v \in {"a", "b"}, d \in 0..MaxDepth}

\* variable "v" = 1
EqualsBlock(v) ==
    Block("variable", "", v, 0, <<"variable", " ", DQ(v), " ", "=", " ", "1">>)

\* the value of an equals-style declaration: a number, an object on one
\* line, an object on three lines
EqualsForms == {"scalar", "line", "lines"}

EqualsValue(form) ==
    CASE form = "scalar" -> <<"1">>
      [] form = "line" -> <<"{", " ", "x", " ", "=", " ", "1", " ", "}">>
      [] form = "lines" -> <<"{", "\n", " ", "x", " ", "=", " ", "1", "\n", "}">>

\* variable "v" = value
EqualsDecl(v, form) ==
    Block("variable", form, v, IF form = "scalar" THEN 0 ELSE 1,
          <<"variable", " ", DQ(v), " ", "=", " ">> \o EqualsValue(form))

\* equals-style declarations, and the blocks that follow or precede them
EqualsDocBlocks ==
    {EqualsDecl(v, form) : v \in {"a", "b"}, form \in EqualsForms}
    \cup {TwoNameBlock("resource", "t", "a", FALSE), TwoNameBlock("data", "t", "b", TRUE),
          TerraformBlock(FALSE, 0),
          Block("variable", "", "a", 1,
                <<"variable", " ", DQ("a"), " ", "{">> \o PlainBody \o <<"}">>)}

\* what stands between two blocks of a file: a newline, a blank line, a
\* blank line with trailing and leading blanks
Separators == {<<"\n">>, <<"\n", "\n">>, <<" ", "\n", "\n", " ">>}

\* the text of the file: the blocks, `sep` between two
RECURSIVE RenderSep(_, _)
RenderSep(d, sep) ==
    IF Len(d) = 0 THEN <<>>
    ELSE IF Len(d) = 1 THEN d[1].text
    ELSE d[1].text \o sep \o RenderSep(Tail(d), sep)

EqualsRequests == {"variable"} \X {"a", "b"}

\* a block cut off before its closing brace
Truncate(b) ==
    Block(b.kind, b.type, b.name, b.depth, SubSeq(b.text, 1, Len(b.text) - 1))

\* a block's first line without the brace: kind "type" "name"
Headless(kind, type, name) ==
    Block(kind, type, name, 0, <<kind, " ", DQ(type), " ", DQ(name)>>)

\* whole blocks, and blocks without a brace or without their closing brace
BrokenBlocks ==
    {TwoNameBlock("resource", "t", "a", FALSE),
     Truncate(TwoNameBlock("resource", "t", "b", TRUE)),
     Headless("data", "t", "b"),
     LocalsBlock("a", 0),
     Truncate(TerraformBlock(FALSE, 1))}

NotFoundRequests ==
    {"resource", "data", "variable", "terraform", "locals"} \X {"a", "b", "x", "a("}

\* the blocks of the documents that are edited: one for each way a block is
\* located (listed pattern, flexible pattern, equals style, locals expression)
EditBlocks ==
    {TwoNameBlock("resource", "t", "a", FALSE), TwoNameBlock("resource", "t", "b", TRUE),
     TwoNameBlock("data", "t", "a", FALSE), EqualsBlock("b"), LocalsBlock("a", 0)}

Docs(blocks) == UNION {[1..n -> blocks] : n \in 1..MaxBlocks}

\* the text of the file: the blocks, a newline between two
RECURSIVE Render(_)
Render(d) ==
    IF Len(d) = 0 THEN <<>>
    ELSE IF Len(d) = 1 THEN d[1].text
    ELSE d[1].text \o <<"\n">> \o Render(Tail(d))

FlatRequests == {"resource", "data"} \X Names
NestedRequests ==
    ({"terraform"} \X {"", "required_providers"}) \cup ({"locals"} \X {"", "a", "b", "t"})
EditRequests ==
    {<<"resource", "a">>, <<"resource", "b">>, <<"data", "a">>, <<"variable", "b">>,
     <<"locals", "a">>, <<"resource", "x">>}

(***************************************************************************)
(* The structured content of a file: an ordered tree.  A dict is a         *)
(* sequence of [key, sub], in insertion order, sub being the keys one      *)
(* level below.  A file's content is a sequence of [kind, form, dicts]:    *)
(* under each kind one dict (form "dict", what the fallback builds) or a   *)
(* list of dicts (form "list", what the parser returns).                   *)
(***************************************************************************)
Range(f) == {f[i] : i \in DOMAIN f}

HasKey(d, key) == \E i \in 1..Len(d) : d[i].key = key

\* if key not in d: d[key] = {}
WithKey(d, key) ==
    IF HasKey(d, key) THEN d ELSE Append(d, [key |-> key, sub |-> <<>>])

\* d[key][name] = {}
WithSub(d, key, name) ==
    [i \in 1..Len(d) |->
        IF d[i].key = key /\ name \notin Range(d[i].sub)
        THEN [key |-> key, sub |-> Append(d[i].sub, name)]
        ELSE d[i]]

\* lines 77-78, 89-90, 96-97: if block_type not in structure: structure[block_type] = {}
WithKind(structure, kind) ==
    IF \E i \in 1..Len(structure) : structure[i].kind = kind
    THEN structure
    ELSE Append(structure, [kind |-> kind, form |-> "dict", dicts |-> << <<>> >>])

\* lines 92, 103, 112: structure[block_type][name] = {}
SetName(structure, kind, name) ==
    [i \in 1..Len(structure) |->
        IF structure[i].kind = kind
        THEN [structure[i] EXCEPT !.dicts = <<WithKey(@[1], name)>>]
        ELSE structure[i]]

\* lines 80-83: structure[block_type][resource_type][resource_name] = {}
SetTypeName(structure, kind, type, name) ==
    [i \in 1..Len(structure) |->
        IF structure[i].kind = kind
        THEN [structure[i] EXCEPT !.dicts = <<WithSub(WithKey(@[1], type), type, name)>>]
        ELSE structure[i]]

(***************************************************************************)
(* extract_fallback_structure, lines 49-114.                               *)
(***************************************************************************)
Kinds ==
    {"resource", "variable", "data", "output", "locals", "provider", "module", "terraform"}

\* the lexemes that are \w+
Words == AllNames \cup {"y", "1", "required_providers"} \cup Kinds

\* the lexemes that [^"\s{]+ runs over
ProviderWords == SQuoted \cup Words \cup {"=", "}"}

\* the text between the double quotes of a quoted name; other lexemes as they are
Unquote(lexeme) ==
    IF lexeme \in DQuoted THEN CHOOSE n \in AllNames : DQ(n) = lexeme ELSE lexeme

NotBlank(c) == c \notin WS

\* lines 57-66, in the order of the list.  The provider expression ends
\* with "?([^"\s{]+)"? : a quoted name, or a run of lexemes up to the next
\* quote, blank or opening brace.
block_patterns ==
    << [re |-> <<One({"resource"}), Plus(WS), One(DQuoted), Plus(WS), One(DQuoted)>>,
        groups |-> 2],
       [re |-> <<One({"data"}), Plus(WS), One(DQuoted), Plus(WS), One(DQuoted)>>,
        groups |-> 2],
       [re |-> <<One({"variable"}), Plus(WS), One(DQuoted)>>, groups |-> 1],
       [re |-> <<One({"output"}), Plus(WS), One(DQuoted)>>, groups |-> 1],
       [re |-> <<One({"provider"}), Plus(WS)>>, groups |-> 1],
       [re |-> <<One({"module"}), Plus(WS), One(DQuoted)>>, groups |-> 1],
       [re |-> <<One({"locals"}), Plus(WS), One({"{"})>>, groups |-> 0],
       [re |-> <<One({"terraform"}), Plus(WS), One({"{"})>>, groups |-> 0] >>

\* where "?([^"\s{]+)"? ends when started at offset i, or -1
ProviderNameEnd(text, i) ==
    IF i < Len(text) /\ At(text, i) \in DQuoted THEN i + 1
    ELSE IF RunLen(text, i, ProviderWords) > 0 THEN i + RunLen(text, i, ProviderWords)
    ELSE -1

\* the end of the pattern's match starting at offset i, or -1
FallbackMatchFrom(text, i, pattern) ==
    LET e == MatchFrom(text, i, pattern.re, 1) IN
    IF e # -1 /\ At(text, i) = "provider" THEN ProviderNameEnd(text, e) ELSE e

\* line 69: re.finditer(pattern, raw_content), from offset `from` on
RECURSIVE FallbackFindIter(_, _, _)
FallbackFindIter(text, pattern, from) ==
    LET i == Least({p \in from..(Len(text) - 1) : FallbackMatchFrom(text, p, pattern) # -1})
    IN  IF i = -1 THEN <<>>
        ELSE LET e == FallbackMatchFrom(text, i, pattern) IN
             <<<<i, e>>>> \o FallbackFindIter(text, pattern, e)

\* the lexemes of a captured group as one name
RECURSIVE Concat(_)
Concat(lexemes) ==
    IF Len(lexemes) = 0 THEN ""
    ELSE IF Len(lexemes) = 1 THEN lexemes[1]
    ELSE lexemes[1] \o Concat(Tail(lexemes))

\* lines 102 and 108: how far after the match start the text is looked at
ProvidersWindow == 200
LocalsWindow == 500

\* line 110: re.findall(r'(\w+)\s*=\s*', locals_section)
LocalVars(locals_section) ==
    LET found == FindIter(locals_section,
                          <<One(Words), Star(WS), One({"="}), Star(WS)>>, 0)
    IN  [j \in 1..Len(found) |-> At(locals_section, found[j][1])]

\* lines 111-112
RECURSIVE SetNames(_, _, _, _)
SetNames(structure, kind, names, j) ==
    IF j > Len(names) THEN structure
    ELSE SetNames(SetName(structure, kind, names[j]), kind, names, j + 1)

\* lines 71-112: one match
OneFallbackMatch(structure, raw, pattern, match) ==
    LET words == SelectSeq(Slice(raw, match[1], match[2]), NotBlank)
        kind == words[1]
        withKind == WithKind(structure, kind)
    IN  IF pattern.groups = 2
        THEN SetTypeName(withKind, kind, Unquote(words[2]), Unquote(words[3]))
        ELSE IF pattern.groups = 1
        THEN SetName(withKind, kind,
                     IF Len(words) = 2 THEN Unquote(words[2]) ELSE Concat(Tail(words)))
        ELSE IF kind = "terraform"
        THEN (IF "required_providers" \in
                    Range(Slice(raw, match[1], Min(match[1] + ProvidersWindow, Len(raw))))
              THEN SetName(withKind, kind, "required_providers")
              ELSE withKind)
        ELSE IF kind = "locals"
        THEN SetNames(withKind, kind,
                      LocalVars(Slice(raw, match[1], Min(match[1] + LocalsWindow, Len(raw)))),
                      1)
        ELSE withKind

\* lines 70-112: the loop over one pattern's matches
RECURSIVE OverFallbackMatches(_, _, _, _, _)
OverFallbackMatches(structure, raw, pattern, matches, j) ==
    IF j > Len(matches) THEN structure
    ELSE OverFallbackMatches(OneFallbackMatch(structure, raw, pattern, matches[j]),
                             raw, pattern, matches, j + 1)

\* lines 68-112: the loop over the patterns
RECURSIVE OverFallbackPatterns(_, _, _)
OverFallbackPatterns(structure, raw, k) ==
    IF k > Len(block_patterns) THEN structure
    ELSE OverFallbackPatterns(
             OverFallbackMatches(structure, raw, block_patterns[k],
                                 FallbackFindIter(raw, block_patterns[k], 0), 1),
             raw, k + 1)

\* lines 49-114 with the tree kept from one call to the next
FallbackShared(raw) ==
    OverFallbackPatterns(IF calls = <<>> THEN <<>> ELSE calls[Len(calls)].result, raw, 1)

\* lines 49-114: the tree starts empty at every call (line 54)
extract_fallback_structure(raw) == OverFallbackPatterns(<<>>, raw, 1)

(***************************************************************************)
(* parse_terraform_files, lines 20-46.  A file of the directory is         *)
(* [name, doc, parses, readable]: its text is Render(doc), `parses` says   *)
(* whether hcl2.load returns or raises on it, `readable` whether open      *)
(* succeeds.  What hcl2.load returns has under each kind, in the order of  *)
(* the file, one dict per block.                                           *)
(***************************************************************************)
\* kind "name" { x = 1 }
OneNameBlock(kind, name) ==
    Block(kind, "", name, 1, <<kind, " ", DQ(name), " ", "{">> \o PlainBody \o <<"}">>)

\* locals { }
EmptyLocals == Block("locals", "", "", 1, <<"locals", " ", "{", " ", "}">>)

LoadBlocks ==
    {TwoNameBlock("resource", "t", "a", FALSE), TwoNameBlock("resource", "t", "b", FALSE),
     OneNameBlock("variable", "a"), OneNameBlock("provider", "a"),
     LocalsBlock("a", 0), EmptyLocals,
     TerraformBlock(TRUE, 0), TerraformBlock(FALSE, 0)}

\* the keys of the body of a locals or terraform block
BodyKeys(b) ==
    IF b.kind = "locals" THEN (IF b.name = "" THEN <<>> ELSE <<b.name>>)
    ELSE (IF b.name = "required_providers" THEN <<"required_providers">> ELSE <<>>)
             \o (IF "x" \in Range(b.text) THEN <<"x">> ELSE <<>>)

\* the dict hcl2.load makes of one block
ParserItem(b) ==
    IF b.kind \in {"resource", "data"} THEN <<[key |-> b.type, sub |-> <<b.name>>]>>
    ELSE IF b.kind \in {"locals", "terraform"}
    THEN [j \in 1..Len(BodyKeys(b)) |-> [key |-> BodyKeys(b)[j], sub |-> <<>>]]
    ELSE <<[key |-> b.name, sub |-> <<>>]>>

\* line 37: what hcl2.load returns for the document when it does return
RECURSIVE ParserStructure(_)
ParserStructure(d) ==
    IF Len(d) = 0 THEN <<>>
    ELSE LET before == ParserStructure(SubSeq(d, 1, Len(d) - 1))
             b == d[Len(d)]
         IN  IF \E i \in 1..Len(before) : before[i].kind = b.kind
             THEN [i \in 1..Len(before) |->
                      IF before[i].kind = b.kind
                      THEN [before[i] EXCEPT !.dicts = Append(@, ParserItem(b))]
                      ELSE before[i]]
             ELSE Append(before, [kind |-> b.kind, form |-> "list",
                                  dicts |-> <<ParserItem(b)>>])

\* line 23: file.endswith(".tf") or file.endswith(".tfvars")
TerraformNames == {"a.tf", "b.tfvars", "c.tf"}

\* line 31
ErrorReading == <<"Error reading file">>

\* an entry of terraform_data: the file's "_raw" key and, if `parsed`, its own
Entry(file, raw, parsed, content) ==
    [file |-> file, raw |-> raw, parsed |-> parsed, content |-> content]

\* lines 22-44, the loop ending at the first file hcl2.load raises on
RECURSIVE ParseLoopAborting(_, _, _)
ParseLoopAborting(files, k, acc) ==
    IF k > Len(files) THEN acc
    ELSE LET f == files[k] IN
         IF f.name \notin TerraformNames THEN ParseLoopAborting(files, k + 1, acc)
         ELSE IF ~f.readable
         THEN ParseLoopAborting(files, k + 1,
                  [data |-> Append(acc.data, Entry(f.name, ErrorReading, FALSE, <<>>)),
                   calls |-> acc.calls])
         ELSE IF f.parses
         THEN ParseLoopAborting(files, k + 1,
                  [data |-> Append(acc.data,
                                   Entry(f.name, Render(f.doc), TRUE, ParserStructure(f.doc))),
                   calls |-> acc.calls])
         ELSE [data |-> Append(acc.data, Entry(f.name, Render(f.doc), FALSE, <<>>)),
               calls |-> acc.calls]

\* lines 22-44: the loop over the files; acc is [data, calls]
RECURSIVE ParseLoop(_, _, _)
ParseLoop(files, k, acc) ==
    IF k > Len(files) THEN acc
    ELSE LET f == files[k] IN
         IF f.name \notin TerraformNames THEN ParseLoop(files, k + 1, acc)
         ELSE IF ~f.readable
         THEN ParseLoop(files, k + 1,
                  [data |-> Append(acc.data, Entry(f.name, ErrorReading, FALSE, <<>>)),
                   calls |-> acc.calls])
         ELSE IF f.parses
         THEN ParseLoop(files, k + 1,
                  [data |-> Append(acc.data,
                                   Entry(f.name, Render(f.doc), TRUE, ParserStructure(f.doc))),
                   calls |-> acc.calls])
         ELSE LET raw == Render(f.doc)
                  structure == extract_fallback_structure(raw)
              IN  ParseLoop(files, k + 1,
                      [data |-> Append(acc.data, Entry(f.name, raw, TRUE, structure)),
                       calls |-> Append(acc.calls, [text |-> raw, result |-> structure])])

\* lines 20-46
parse_terraform_files(files) == ParseLoop(files, 1, [data |-> <<>>, calls |-> <<>>])

\* the directories: one file, or that file and another, in either order
File(name, d, parses, readable) ==
    [name |-> name, doc |-> d, parses |-> parses, readable |-> readable]

LoadFiles == {File("a.tf", d, p, TRUE) : d \in Docs(LoadBlocks), p \in BOOLEAN}

OtherFiles ==
    {File("b.tfvars", <<OneNameBlock("variable", "b")>>, FALSE, TRUE),
     File("b.tfvars", <<OneNameBlock("variable", "b")>>, TRUE, TRUE),
     File("b.tfvars", <<OneNameBlock("variable", "b")>>, FALSE, FALSE),
     File("c.txt", <<OneNameBlock("variable", "b")>>, FALSE, TRUE)}

Dirs ==
    {<<f>> : f \in LoadFiles}
    \cup {<<f, g>> : f \in LoadFiles, g \in OtherFiles}
    \cup {<<g, f>> : f \in LoadFiles, g \in OtherFiles}

(***************************************************************************)
(* The lists the frames show and the save action computes.  An entry of    *)
(* a list is a pair: <<kind, name>> for "kind.name" in the file view,      *)
(* <<file, name>> for "file:name" in the category view.                    *)
(***************************************************************************)
Keys(d) == [i \in 1..Len(d) |-> d[i].key]

Tagged(tag, names) == [i \in 1..Len(names) |-> <<tag, names[i]>>]

\* for item in block_items: for name in item.keys()
RECURSIVE ListKeys(_)
ListKeys(dicts) ==
    IF dicts = <<>> THEN <<>> ELSE Keys(Head(dicts)) \o ListKeys(Tail(dicts))

\* lines 791-797: for item in content[selected_category], its keys, and its keys
RECURSIVE ListKeysTwice(_)
ListKeysTwice(dicts) ==
    IF dicts = <<>> THEN <<>>
    ELSE Keys(Head(dicts)) \o Keys(Head(dicts)) \o ListKeysTwice(Tail(dicts))

\* file_view, lines 504-518 (and main, lines 1533-1548 and 1707-1717)
RECURSIVE FileBlocks(_)
FileBlocks(file_content) ==
    IF file_content = <<>> THEN <<>>
    ELSE LET e == Head(file_content)
             names == IF e.form = "list" THEN ListKeys(e.dicts) ELSE Keys(e.dicts[1])
         IN  Tagged(e.kind, names) \o FileBlocks(Tail(file_content))

\* files = [f for f in terraform_data.keys() if not f.endswith("_raw")]
ParsedFiles(data) == {data[i].file : i \in {j \in 1..Len(data) : data[j].parsed}}

\* terraform_data.get(selected_file, {})
ContentOf(data, file) ==
    IF file \in ParsedFiles(data)
    THEN (CHOOSE e \in Range(data) : e.file = file /\ e.parsed).content
    ELSE <<>>

\* selected_category in content
HasKind(content, kind) == \E i \in 1..Len(content) : content[i].kind = kind

\* content[selected_category]
UnderKind(content, kind) == CHOOSE e \in Range(content) : e.kind = kind

\* category_view, lines 779-797
RECURSIVE CategoryItems(_, _)
CategoryItems(data, selected_category) ==
    IF data = <<>> THEN <<>>
    ELSE LET e == Head(data)
             names ==
                 IF ~e.parsed \/ ~HasKind(e.content, selected_category) THEN <<>>
                 ELSE IF UnderKind(e.content, selected_category).form = "dict"
                 THEN Keys(UnderKind(e.content, selected_category).dicts[1])
                 ELSE ListKeysTwice(UnderKind(e.content, selected_category).dicts)
         IN  Tagged(e.file, names) \o CategoryItems(Tail(data), selected_category)

\* main, lines 1741-1754: the items the save action indexes
RECURSIVE SaveCategoryItems(_, _)
SaveCategoryItems(data, selected_category) ==
    IF data = <<>> THEN <<>>
    ELSE LET e == Head(data)
             names ==
                 IF ~e.parsed \/ ~HasKind(e.content, selected_category) THEN <<>>
                 ELSE IF UnderKind(e.content, selected_category).form = "dict"
                 THEN Keys(UnderKind(e.content, selected_category).dicts[1])
                 ELSE ListKeys(UnderKind(e.content, selected_category).dicts)
         IN  Tagged(e.file, names) \o SaveCategoryItems(Tail(data), selected_category)

(***************************************************************************)
(* The state after construction: the file loaded, nothing requested.       *)
(***************************************************************************)
NoScan ==
    /\ open_brace_pos = -1
    /\ bracket_count = 0
    /\ current_idx = -1
    /\ last_read = -1

\* main, lines 1485-1499: the selection before the first frame
NavStart ==
    /\ view = 1
    /\ selected_index = 0
    /\ selected_block_index = -1
    /\ active_column = 0
    /\ file_scroll_offset = 0
    /\ block_scroll_offset = 0

MaxRows == 2        \* max_rows = height - 6 (line 1514) of a terminal of 8 lines

\* lines 1558, 1976, 2067, 2183
Categories ==
    <<"resource", "variable", "data", "output", "locals", "provider", "module", "terraform">>

\* files = [f for f in terraform_data.keys() if not f.endswith("_raw")]
RECURSIVE Files(_)
Files(data) ==
    IF data = <<>> THEN <<>>
    ELSE (IF Head(data).parsed THEN <<Head(data).file>> ELSE <<>>) \o Files(Tail(data))

\* lines 1176-1183
has_modules(content) ==
    /\ HasKind(content, "module")
    /\ IF UnderKind(content, "module").form = "list"
       THEN UnderKind(content, "module").dicts # <<>>
       ELSE UnderKind(content, "module").dicts[1] # <<>>

\* lines 1568-1569
RECURSIVE FilesWithModules(_)
FilesWithModules(data) ==
    IF data = <<>> THEN <<>>
    ELSE (IF Head(data).parsed /\ has_modules(Head(data).content)
          THEN <<Head(data).file>> ELSE <<>>) \o FilesWithModules(Tail(data))

\* list[i] of Python: a negative i counts from the end, IndexError outside
PyIndexable(list, i) == -Len(list) <= i /\ i < Len(list)

PyAt(list, i) == IF i < 0 THEN list[Len(list) + i + 1] ELSE list[i + 1]

\* lines 1534-1548 (and 1994, 2075, 2188): blocks under "if 0 <= selected_index < len(files)"
BlocksOf(data, i) ==
    IF 0 <= i /\ i < Len(Files(data))
    THEN FileBlocks(ContentOf(data, Files(data)[i + 1]))
    ELSE <<>>

\* file_view, line 505, and main, line 1915: "if selected_index < len(files)"
ReadsFile(data, i) == i < Len(Files(data))

\* file_view, lines 504-518, and main, lines 1913-1930: blocks under line 505 / 1915
BlocksRead(data, i) ==
    IF ReadsFile(data, i) /\ PyIndexable(Files(data), i)
    THEN FileBlocks(ContentOf(data, PyAt(Files(data), i)))
    ELSE <<>>

\* the selection as one value
Nav ==
    [view |-> view, selected_index |-> selected_index,
     selected_block_index |-> selected_block_index, active_column |-> active_column,
     file_scroll_offset |-> file_scroll_offset, block_scroll_offset |-> block_scroll_offset]

\* lines 1530-1531, 1551-1552, 1561-1562, 1572-1573
Normalise(i, len) == IF i >= len THEN (IF len > 0 THEN 0 ELSE -1) ELSE i

\* lines 1527-1576: the head of the loop makes the selection valid and draws
\* the view; `raised` when file_view raises IndexError at line 506
Frame(n, data) ==
    IF n.view = 1
    THEN LET si == Normalise(n.selected_index, Len(Files(data)))
             sbi == Normalise(n.selected_block_index, Len(BlocksOf(data, si)))
         IN  [nav |-> [n EXCEPT !.selected_index = si, !.selected_block_index = sbi],
              raised |-> ReadsFile(data, si) /\ ~PyIndexable(Files(data), si)]
    ELSE IF n.view = 2
    THEN [nav |-> [n EXCEPT !.selected_index = Normalise(@, Len(Categories))],
          raised |-> FALSE]
    ELSE [nav |-> [n EXCEPT !.selected_index = Normalise(@, Len(FilesWithModules(data)))],
          raised |-> FALSE]

\* the frame after a key was handled: the loop then waits in getch, or the
\* exception of the frame ends the program
Show(n, data) ==
    \E f \in {Frame(n, data)} :
        /\ view' = f.nav.view
        /\ selected_index' = f.nav.selected_index
        /\ selected_block_index' = f.nav.selected_block_index
        /\ active_column' = f.nav.active_column
        /\ file_scroll_offset' = f.nav.file_scroll_offset
        /\ block_scroll_offset' = f.nav.block_scroll_offset
        /\ pc' = IF f.raised THEN "crashed" ELSE "idle"

\* no directory is modelled, no frame has listed anything, curses is on
NoLoad ==
    /\ dir = <<>>
    /\ terraform_data = <<>>
    /\ calls = <<>>
    /\ selected = ""
    /\ view_items = <<>>
    /\ save_items = <<>>
    /\ screen = "curses"
    /\ NavStart

Loaded(blocks) ==
    /\ doc \in Docs(blocks)
    /\ raw_content = Render(doc)
    /\ disk = raw_content
    /\ block_type = ""
    /\ block_name = ""
    /\ block_content = <<>>
    /\ original_content = <<>>
    /\ edited_content = <<>>
    /\ success = "none"
    /\ modified = FALSE
    /\ pc = "idle"
    /\ NoScan
    /\ NoLoad

(***************************************************************************)
(* file_view, lines 552-571: the selected block is located in the          *)
(* in-memory text to be displayed.  Nothing between line 571 and           *)
(* curses.wrapper catches an exception of extract_block_content: it ends   *)
(* the program.                                                            *)
(***************************************************************************)
Locate(kind, name) ==
    /\ pc = "idle"
    /\ block_type' = kind
    /\ block_name' = name
    /\ \E r \in {extract_block_content(raw_content, kind, name)} :
         /\ block_content' = IF r = Raised THEN block_content ELSE r
         /\ pc' = IF r = Raised THEN "crashed" ELSE "located"
    /\ UNCHANGED <<doc, raw_content, disk, screen>>
    /\ UNCHANGED editVars
    /\ UNCHANGED scanVars
    /\ UNCHANGED loadVars
    /\ UNCHANGED listVars
    /\ UNCHANGED navVars

(***************************************************************************)
(* main, lines 1830-1879: 'e' locates the selected block in the in-memory  *)
(* text, leaves curses mode (endwin, line 1875) and hands the text to      *)
(* edit_block_content, which starts the editor.                            *)
(***************************************************************************)
PressE(kind, name) ==
    /\ pc \in {"idle", "located"}
    /\ block_type' = kind
    /\ block_name' = name
    /\ \E r \in {extract_block_content(raw_content, kind, name)} :
         /\ block_content' = IF r = Raised THEN block_content ELSE r
         /\ pc' = IF r = Raised THEN "crashed" ELSE "editing"
         /\ screen' = IF r = Raised THEN screen ELSE "suspended"
    /\ UNCHANGED <<doc, raw_content, disk>>
    /\ UNCHANGED editVars
    /\ UNCHANGED scanVars
    /\ UNCHANGED loadVars
    /\ UNCHANGED listVars
    /\ UNCHANGED navVars

(***************************************************************************)
(* While the editor runs another program may rewrite the file: its last    *)
(* character lost, its content written twice, or emptied.                  *)
(***************************************************************************)
ExternalEdits(content) ==
    {SubSeq(content, 1, Len(content) - 1), content \o <<"\n">> \o content, <<>>}

ExternalModify ==
    /\ pc = "editing"
    /\ ~modified
    /\ \E c \in ExternalEdits(disk) : disk' = c
    /\ modified' = TRUE
    /\ UNCHANGED <<doc, raw_content, block_type, block_name, block_content,
                   original_content, edited_content, success, pc, screen>>
    /\ UNCHANGED scanVars
    /\ UNCHANGED loadVars
    /\ UNCHANGED listVars
    /\ UNCHANGED navVars

(***************************************************************************)
(* The editor exits, lines 347-368; main restores curses mode, lines       *)
(* 1881-1890, and reloads the files after a success, lines 1892-1894.     *)
(* The user left the text as it was, rewrote the block, or deleted it.     *)
(***************************************************************************)
Edits(content) ==
    {content, <<"variable", " ", DQ("x"), " ", "{", "}">>, <<>>}

\* the exit of the editor without lines 1892-1894
EditorExitNoReload(edited) ==
    /\ pc = "editing"
    /\ edited_content' = edited
    /\ original_content' = disk
    /\ \E r \in {Commit(disk, block_content, edited)} :
         /\ disk' = IF r.written THEN r.new_content ELSE disk
         /\ success' = IF r.success THEN "ok" ELSE "fail"
    /\ screen' = "curses"
    /\ pc' = "done"
    /\ UNCHANGED <<doc, raw_content, block_type, block_name, block_content, modified>>
    /\ UNCHANGED scanVars
    /\ UNCHANGED loadVars
    /\ UNCHANGED listVars
    /\ UNCHANGED navVars

EditorExit(edited) ==
    /\ pc = "editing"
    /\ edited_content' = edited
    /\ original_content' = disk
    /\ \E r \in {Commit(disk, block_content, edited)} :
         /\ disk' = IF r.written THEN r.new_content ELSE disk
         /\ success' = IF r.success THEN "ok" ELSE "fail"
         /\ raw_content' = IF r.success
                           THEN (IF r.written THEN r.new_content ELSE disk)
                           ELSE raw_content
    /\ screen' = "curses"
    /\ pc' = "done"
    /\ UNCHANGED <<doc, block_type, block_name, block_content, modified>>
    /\ UNCHANGED scanVars
    /\ UNCHANGED loadVars
    /\ UNCHANGED listVars
    /\ UNCHANGED navVars

(***************************************************************************)
(* The brace scan of lines 290-307, one iteration of its loop at a time,   *)
(* on every text over { } x and every opening brace of it.                 *)
(***************************************************************************)
ScanAlphabet == {"{", "}", "x"}
ScanTexts == UNION {[1..n -> ScanAlphabet] : n \in 1..MaxScanLen}

ScanState ==
    [bracket_count |-> bracket_count, current_idx |-> current_idx, last_read |-> last_read]

ScanInit ==
    /\ doc = <<>>
    /\ raw_content \in ScanTexts
    /\ disk = raw_content
    /\ block_type = ""
    /\ block_name = ""
    /\ block_content = <<>>
    /\ original_content = <<>>
    /\ edited_content = <<>>
    /\ success = "none"
    /\ modified = FALSE
    /\ pc = "scan"
    /\ open_brace_pos \in {i \in 0..(Len(raw_content) - 1) : At(raw_content, i) = "{"}
    /\ bracket_count = ScanStart(open_brace_pos).bracket_count
    /\ current_idx = ScanStart(open_brace_pos).current_idx
    /\ last_read = ScanStart(open_brace_pos).last_read
    /\ NoLoad

ScanStep ==
    /\ pc = "scan"
    /\ ScanGuard(raw_content, ScanState)
    /\ LET st == ScanStepFn(raw_content, ScanState) IN
         /\ bracket_count' = st.bracket_count
         /\ current_idx' = st.current_idx
         /\ last_read' = st.last_read
    /\ UNCHANGED <<doc, raw_content, disk, block_type, block_name, block_content,
                   pc, open_brace_pos, screen>>
    /\ UNCHANGED editVars
    /\ UNCHANGED loadVars
    /\ UNCHANGED listVars
    /\ UNCHANGED navVars

ScanExit ==
    /\ pc = "scan"
    /\ ~ScanGuard(raw_content, ScanState)
    /\ block_content' = ScanResult(raw_content, open_brace_pos, ScanState)
    /\ pc' = "scanned"
    /\ UNCHANGED <<doc, raw_content, disk, block_type, block_name, screen>>
    /\ UNCHANGED editVars
    /\ UNCHANGED scanVars
    /\ UNCHANGED loadVars
    /\ UNCHANGED listVars
    /\ UNCHANGED navVars

(***************************************************************************)
(* main, line 1507: the files are parsed when the program starts; and      *)
(* lines 1612-1624: 'R' parses them again.                                 *)
(***************************************************************************)
NotStarted ==
    /\ doc = <<>>
    /\ raw_content = <<>>
    /\ disk = <<>>
    /\ block_type = ""
    /\ block_name = ""
    /\ block_content = <<>>
    /\ original_content = <<>>
    /\ edited_content = <<>>
    /\ success = "none"
    /\ modified = FALSE
    /\ pc = "start"
    /\ NoScan
    /\ terraform_data = <<>>
    /\ calls = <<>>
    /\ selected = ""
    /\ view_items = <<>>
    /\ save_items = <<>>
    /\ screen = "curses"
    /\ NavStart

Load ==
    /\ pc = "start"
    /\ \E r \in {parse_terraform_files(dir)} :
         /\ terraform_data' = r.data
         /\ calls' = calls \o r.calls
         /\ Show(Nav, r.data)
    /\ UNCHANGED <<doc, raw_content, disk, block_type, block_name, block_content,
                   dir, screen>>
    /\ UNCHANGED editVars
    /\ UNCHANGED scanVars
    /\ UNCHANGED listVars

\* lines 1612-1624
ReloadKey(n) ==
    [n EXCEPT !.selected_block_index = IF n.active_column = 0 THEN -1 ELSE @,
              !.file_scroll_offset = 0,
              !.block_scroll_offset = 0]

Reload ==
    /\ pc = "idle"
    /\ Len(calls) < MaxCalls
    /\ \E r \in {parse_terraform_files(dir)} :
         /\ terraform_data' = r.data
         /\ calls' = calls \o r.calls
         /\ Show(ReloadKey(Nav), r.data)
    /\ UNCHANGED <<doc, raw_content, disk, block_type, block_name, block_content,
                   dir, screen>>
    /\ UNCHANGED editVars
    /\ UNCHANGED scanVars
    /\ UNCHANGED listVars

(***************************************************************************)
(* main, lines 1527-1555, and file_view / category_view: a frame of the    *)
(* file view lists the blocks of the selected file, a frame of the         *)
(* category view the items of the selected category.                       *)
(***************************************************************************)
FileView(selected_file) ==
    /\ pc = "idle"
    /\ selected_file \in ParsedFiles(terraform_data)
    /\ selected' = selected_file
    /\ view_items' = FileBlocks(ContentOf(terraform_data, selected_file))
    /\ save_items' = <<>>
    /\ UNCHANGED <<doc, raw_content, disk, block_type, block_name, block_content,
                   screen, pc>>
    /\ UNCHANGED editVars
    /\ UNCHANGED scanVars
    /\ UNCHANGED loadVars
    /\ UNCHANGED navVars

CategoryView(selected_category) ==
    /\ pc = "idle"
    /\ selected' = selected_category
    /\ view_items' = CategoryItems(terraform_data, selected_category)
    /\ save_items' = <<>>
    /\ UNCHANGED <<doc, raw_content, disk, block_type, block_name, block_content,
                   screen, pc>>
    /\ UNCHANGED editVars
    /\ UNCHANGED scanVars
    /\ UNCHANGED loadVars
    /\ UNCHANGED navVars

(***************************************************************************)
(* main, lines 1694-1754: 's' with a block selected computes the list the  *)
(* selection indexes, that of the view shown.                              *)
(***************************************************************************)
ListForSave ==
    /\ pc = "idle"
    /\ view_items # <<>>
    /\ save_items = <<>>
    /\ save_items' = IF selected \in Kinds
                     THEN SaveCategoryItems(terraform_data, selected)
                     ELSE FileBlocks(ContentOf(terraform_data, selected))
    /\ UNCHANGED <<doc, raw_content, disk, block_type, block_name, block_content,
                   screen, pc, selected, view_items>>
    /\ UNCHANGED editVars
    /\ UNCHANGED scanVars
    /\ UNCHANGED loadVars
    /\ UNCHANGED navVars

(***************************************************************************)
(* main, lines 1694-1816: 's' locates the selected block in the in-memory  *)
(* text and, if there is anything to save, leaves curses mode (line 1802)  *)
(* for save_block_to_file, which asks for a file name.                     *)
(***************************************************************************)
PressS(kind, name) ==
    /\ pc \in {"idle", "located"}
    /\ block_type' = kind
    /\ block_name' = name
    /\ \E r \in {extract_block_content(raw_content, kind, name)} :
         /\ block_content' = IF r = Raised THEN block_content ELSE r
         /\ pc' = IF r = Raised THEN "crashed" ELSE IF r # <<>> THEN "saving" ELSE pc
         /\ screen' = IF r # Raised /\ r # <<>> THEN "suspended" ELSE screen
    /\ UNCHANGED <<doc, raw_content, disk>>
    /\ UNCHANGED editVars
    /\ UNCHANGED scanVars
    /\ UNCHANGED loadVars
    /\ UNCHANGED listVars
    /\ UNCHANGED navVars

\* the file shown and edited
SourceFile == "a.tf"

\* what the user types at the prompt of line 1373
SaveInputs == {"", "a", "out"}

\* lines 1734, 1765: f"{block_type}_{block_name}.tf"
SuggestedFilename(kind, name) == kind \o "_" \o name \o ".tf"

\* lines 1375-1381: the name the block is written to
SaveFilename(typed, suggested_filename) ==
    LET filename == IF typed = "" THEN suggested_filename ELSE typed
    IN  IF filename \in {"a.tf", suggested_filename} THEN filename ELSE filename \o ".tf"

(***************************************************************************)
(* save_block_to_file, lines 1368-1389, and main, lines 1805-1816: the     *)
(* block is written to the file named, whatever file that is, or open      *)
(* raises and nothing is written; curses mode is restored.                 *)
(***************************************************************************)
SaveExit(typed, opened) ==
    /\ pc = "saving"
    /\ disk' = IF opened /\ SaveFilename(typed, SuggestedFilename(block_type, block_name))
                              = SourceFile
               THEN block_content
               ELSE disk
    /\ screen' = "curses"
    /\ pc' = "idle"
    /\ UNCHANGED <<doc, raw_content, block_type, block_name, block_content>>
    /\ UNCHANGED editVars
    /\ UNCHANGED scanVars
    /\ UNCHANGED loadVars
    /\ UNCHANGED listVars
    /\ UNCHANGED navVars

(***************************************************************************)
(* main, line 1642, and prompt_for_search, lines 1313-1320: '/' leaves     *)
(* curses mode and asks for a search term.                                 *)
(***************************************************************************)
PressSlash ==
    /\ pc \in {"idle", "located"}
    /\ screen' = "suspended"
    /\ pc' = "searching"
    /\ UNCHANGED <<doc, raw_content, disk, block_type, block_name, block_content>>
    /\ UNCHANGED editVars
    /\ UNCHANGED scanVars
    /\ UNCHANGED loadVars
    /\ UNCHANGED listVars
    /\ UNCHANGED navVars

SearchTerms == {"", "x"}

\* lines 1344-1360: the name keys of the file, each located in the raw text;
\* extract_block_content raises on the names that do not compile
SearchKeys ==
    {<<doc[i].kind, IF doc[i].kind \in {"resource", "data"} THEN doc[i].type ELSE doc[i].name>> :
        i \in 1..Len(doc)}

SearchRaises ==
    \E k \in SearchKeys : k[1] \notin {"terraform", "locals"} /\ ~Compiles(k[2])

\* prompt_for_search returning on an empty term without lines 1325-1327
SearchExitSuspended(search_term) ==
    /\ pc = "searching"
    /\ screen' = IF search_term = "" \/ SearchRaises THEN screen ELSE "curses"
    /\ pc' = IF search_term # "" /\ SearchRaises THEN "crashed" ELSE "idle"
    /\ UNCHANGED <<doc, raw_content, disk, block_type, block_name, block_content>>
    /\ UNCHANGED editVars
    /\ UNCHANGED scanVars
    /\ UNCHANGED loadVars
    /\ UNCHANGED listVars
    /\ UNCHANGED navVars

(***************************************************************************)
(* prompt_for_search, lines 1322-1366, and main, lines 1643-1693: an empty *)
(* term cancels; otherwise the blocks are searched; curses mode is         *)
(* restored on both paths.  An exception of extract_block_content ends    *)
(* the program.  The result moves the selection and sets the status line.  *)
(***************************************************************************)
SearchExit(search_term) ==
    /\ pc = "searching"
    /\ screen' = IF search_term # "" /\ SearchRaises THEN screen ELSE "curses"
    /\ pc' = IF search_term # "" /\ SearchRaises THEN "crashed" ELSE "idle"
    /\ UNCHANGED <<doc, raw_content, disk, block_type, block_name, block_content>>
    /\ UNCHANGED editVars
    /\ UNCHANGED scanVars
    /\ UNCHANGED loadVars
    /\ UNCHANGED listVars
    /\ UNCHANGED navVars

(***************************************************************************)
(* main, line 1627, and show_workspace_menu, lines 1391-1415: 'W' leaves   *)
(* curses mode and shows the workspace menu.                               *)
(***************************************************************************)
PressW ==
    /\ pc \in {"idle", "located"}
    /\ screen' = "suspended"
    /\ pc' = "menu"
    /\ UNCHANGED <<doc, raw_content, disk, block_type, block_name, block_content>>
    /\ UNCHANGED editVars
    /\ UNCHANGED scanVars
    /\ UNCHANGED loadVars
    /\ UNCHANGED listVars
    /\ UNCHANGED navVars

(***************************************************************************)
(* show_workspace_menu, lines 1417-1482, and main, lines 1628-1634: every  *)
(* choice ends at the restoring lines 1478-1481; when a workspace was      *)
(* created or selected, or failed to be (`result`), the files are read     *)
(* again.                                                                  *)
(***************************************************************************)
MenuExit(result) ==
    /\ pc = "menu"
    /\ raw_content' = IF result THEN disk ELSE raw_content
    /\ screen' = "curses"
    /\ pc' = "idle"
    /\ UNCHANGED <<doc, disk, block_type, block_name, block_content>>
    /\ UNCHANGED editVars
    /\ UNCHANGED scanVars
    /\ UNCHANGED loadVars
    /\ UNCHANGED listVars
    /\ UNCHANGED navVars

(***************************************************************************)
(* The specifications.  Spec: a file of resource and data blocks is shown  *)
(* and edited.  SpecLocate, SpecNested: the locator on documents of        *)
(* resource / data blocks and of terraform / locals blocks.  SpecScan:     *)
(* the brace scan.                                                         *)
(***************************************************************************)
(***************************************************************************)
(* main, lines 1587-2425: what a key does to the selection.  A handler is  *)
(* a function of the selection; the action of a key is its handler         *)
(* followed by the frame of the next turn of the loop.  The arrows, the    *)
(* page keys and Tab are handled under "elif view == 1" (line 1909), which *)
(* comes after the keys with a handler of their own.                       *)
(***************************************************************************)
\* lines 1589-1611: '!', '@', '#'
SwitchView(n, v) ==
    [n EXCEPT !.view = v,
              !.selected_index = IF v = 1 THEN @ ELSE 0,
              !.selected_block_index = -1,
              !.active_column = 0,
              !.file_scroll_offset = 0,
              !.block_scroll_offset = 0]

\* lines 2412-2418: 't', which line 1909 leaves to the other views
ToggleView(n) ==
    IF n.view = 1 THEN n ELSE [n EXCEPT !.view = IF n.view = 2 THEN 3 ELSE 1]

\* lines 1968-2052
KEY_DOWN(n, data) ==
    IF n.view # 1 THEN n
    ELSE IF n.active_column = 0
    THEN IF n.selected_index < Len(Files(data)) - 1
         THEN [n EXCEPT !.selected_index = @ + 1,
                        !.file_scroll_offset =
                            IF n.selected_index + 1 >= @ + MaxRows THEN @ + 1 ELSE @,
                        !.selected_block_index = -1,
                        !.block_scroll_offset = 0,
                        !.active_column = 0]
         ELSE n
    ELSE IF n.active_column = 1
    THEN IF n.selected_block_index < Len(BlocksOf(data, n.selected_index)) - 1
         THEN [n EXCEPT !.selected_block_index = @ + 1,
                        !.block_scroll_offset =
                            IF n.selected_block_index + 1 >= @ + MaxRows THEN @ + 1 ELSE @]
         ELSE n
    ELSE n

\* lines 2054-2130
KEY_UP(n, data) ==
    IF n.view # 1 THEN n
    ELSE IF n.active_column = 0
    THEN IF n.selected_index > 0
         THEN [n EXCEPT !.selected_index = @ - 1,
                        !.file_scroll_offset = IF n.selected_index - 1 < @ THEN @ - 1 ELSE @]
         ELSE n
    ELSE IF n.active_column = 1
    THEN IF n.selected_block_index > 0
         THEN [n EXCEPT !.selected_block_index = @ - 1,
                        !.block_scroll_offset =
                            IF n.selected_block_index - 1 < @ THEN @ - 1 ELSE @]
         ELSE n
    ELSE n

Max(a, b) == IF a >= b THEN a ELSE b

\* lines 2135-2139 and 2144-2148: one page down in a list of `len` rows
PageDown(index, offset, len) ==
    IF index + MaxRows < len
    THEN [index |-> index + MaxRows,
          offset |-> IF offset + MaxRows + MaxRows > len
                     THEN Max(0, len - MaxRows) ELSE offset + MaxRows,
          moved |-> TRUE]
    ELSE [index |-> index, offset |-> offset, moved |-> FALSE]

\* lines 2132-2155
KEY_NPAGE(n, data) ==
    IF n.view # 1 THEN n
    ELSE IF n.active_column = 0
    THEN LET p == PageDown(n.selected_index, n.file_scroll_offset, Len(Files(data)))
         IN  IF p.moved
             THEN [n EXCEPT !.selected_index = p.index,
                            !.file_scroll_offset = p.offset,
                            !.selected_block_index = -1,
                            !.block_scroll_offset = 0]
             ELSE n
    ELSE IF n.active_column = 1
    THEN LET p == PageDown(n.selected_block_index, n.block_scroll_offset,
                           Len(BlocksRead(data, n.selected_index)))
         IN  [n EXCEPT !.selected_block_index = p.index, !.block_scroll_offset = p.offset]
    ELSE n

\* lines 2157-2174
KEY_PPAGE(n, data) ==
    IF n.view # 1 THEN n
    ELSE IF n.active_column = 0
    THEN IF n.selected_index > 0
         THEN [n EXCEPT !.selected_index = Max(0, @ - MaxRows),
                        !.file_scroll_offset = Max(0, @ - MaxRows),
                        !.selected_block_index = -1,
                        !.block_scroll_offset = 0]
         ELSE n
    ELSE IF n.active_column = 1
    THEN IF n.selected_block_index > 0
         THEN [n EXCEPT !.selected_block_index = Max(0, @ - MaxRows),
                        !.block_scroll_offset = Max(0, @ - MaxRows)]
         ELSE n
    ELSE n

\* lines 2176-2305; the lines of a block's text are never none (str.split)
Tab(n, data) ==
    IF n.view # 1 THEN n
    ELSE IF n.active_column = 0
    THEN IF Len(BlocksRead(data, n.selected_index)) > 0
         THEN [n EXCEPT !.active_column = 1,
                        !.selected_block_index = IF @ = -1 THEN 0 ELSE @]
         ELSE n
    ELSE IF n.active_column = 1
    THEN IF /\ 0 <= n.selected_block_index
            /\ n.selected_block_index < Len(BlocksRead(data, n.selected_index))
            /\ 0 <= n.selected_index
            /\ n.selected_index < Len(Files(data))
         THEN [n EXCEPT !.active_column = 2]
         ELSE [n EXCEPT !.active_column = 0, !.selected_block_index = -1]
    ELSE [n EXCEPT !.active_column = 0, !.selected_block_index = -1]

\* blocks.index(target_block), as an offset
IndexOf(list, x) == (CHOOSE k \in 1..Len(list) : list[k] = x /\ \A m \in 1..(k - 1) : list[m] # x) - 1

\* lines 1641-1681: the first result of a search is block j of file i
SearchJump(n, data, i, j) ==
    IF n.view # 1 THEN n
    ELSE LET blocks == BlocksOf(data, i)
             sbi == IndexOf(blocks, blocks[j + 1])
         IN  [n EXCEPT !.selected_index = i,
                       !.selected_block_index = sbi,
                       !.active_column = 1,
                       !.file_scroll_offset = IF i >= MaxRows THEN i - (MaxRows \div 2) ELSE @,
                       !.block_scroll_offset =
                           IF sbi >= MaxRows THEN sbi - (MaxRows \div 2) ELSE @]

\* lines 1832-1851: what 'e' asks before it launches the editor
CanEdit(n, data) ==
    /\ n.view = 1
    /\ n.active_column = 2
    /\ 0 <= n.selected_block_index
    /\ 0 <= n.selected_index
    /\ n.selected_index < Len(Files(data))
    /\ n.selected_block_index < Len(BlocksOf(data, n.selected_index))

\* what a key handled in the loop leaves alone
KeyFrame ==
    /\ UNCHANGED <<doc, raw_content, disk, block_type, block_name, block_content, screen>>
    /\ UNCHANGED editVars
    /\ UNCHANGED scanVars
    /\ UNCHANGED loadVars
    /\ UNCHANGED listVars

PressView(v) == pc = "idle" /\ Show(SwitchView(Nav, v), terraform_data) /\ KeyFrame

PressT == pc = "idle" /\ Show(ToggleView(Nav), terraform_data) /\ KeyFrame

PressDown == pc = "idle" /\ Show(KEY_DOWN(Nav, terraform_data), terraform_data) /\ KeyFrame

PressUp == pc = "idle" /\ Show(KEY_UP(Nav, terraform_data), terraform_data) /\ KeyFrame

PressPageDown == pc = "idle" /\ Show(KEY_NPAGE(Nav, terraform_data), terraform_data) /\ KeyFrame

PressPageUp == pc = "idle" /\ Show(KEY_PPAGE(Nav, terraform_data), terraform_data) /\ KeyFrame

PressTab == pc = "idle" /\ Show(Tab(Nav, terraform_data), terraform_data) /\ KeyFrame

\* which block is the first result is decided by the term typed: every block
\* is the first one to contain some term
Search(i, j) ==
    /\ pc = "idle"
    /\ 0 <= i /\ i < Len(Files(terraform_data))
    /\ 0 <= j /\ j < Len(BlocksOf(terraform_data, i))
    /\ Show(SearchJump(Nav, terraform_data, i, j), terraform_data)
    /\ KeyFrame

\* lines 1830-1875 and 1902-1908: 'e' launches the editor, or only sets the
\* status line
PressEdit ==
    /\ pc = "idle"
    /\ IF CanEdit(Nav, terraform_data)
       THEN /\ pc' = "editing"
            /\ screen' = "suspended"
            /\ UNCHANGED navVars
       ELSE /\ Show(Nav, terraform_data)
            /\ UNCHANGED screen
    /\ UNCHANGED <<doc, raw_content, disk, block_type, block_name, block_content>>
    /\ UNCHANGED editVars
    /\ UNCHANGED scanVars
    /\ UNCHANGED loadVars
    /\ UNCHANGED listVars

\* the directory after an edit of the file: "same" text, or a file of one
\* block whose text was replaced by text that holds no block
Edited(files, name, outcome) ==
    [k \in 1..Len(files) |->
        IF files[k].name = name /\ outcome = "emptied" /\ Len(files[k].doc) = 1
        THEN File(name, <<>>, TRUE, TRUE)
        ELSE files[k]]

EditOutcomes == {"same", "emptied", "fail"}

\* lines 1877-1901: back from the editor; a successful edit parses the files again
EditorReturn(outcome) ==
    /\ pc = "editing"
    /\ dir # <<>>
    /\ dir' = Edited(dir, Files(terraform_data)[selected_index + 1], outcome)
    /\ screen' = "curses"
    /\ IF outcome = "fail"
       THEN /\ UNCHANGED <<terraform_data, calls>>
            /\ Show(Nav, terraform_data)
       ELSE \E r \in {parse_terraform_files(dir')} :
                /\ terraform_data' = r.data
                /\ calls' = calls \o r.calls
                /\ Show(Nav, r.data)
    /\ UNCHANGED <<doc, raw_content, disk, block_type, block_name, block_content>>
    /\ UNCHANGED editVars
    /\ UNCHANGED scanVars
    /\ UNCHANGED listVars

NavFiles ==
    [a3 |-> File("a.tf", <<TwoNameBlock("resource", "t", "a", FALSE),
                            OneNameBlock("variable", "a"),
                            OneNameBlock("provider", "a")>>, TRUE, TRUE),
     a1 |-> File("a.tf", <<OneNameBlock("variable", "a")>>, TRUE, TRUE),
     b1 |-> File("b.tfvars", <<OneNameBlock("variable", "b")>>, TRUE, TRUE),
     c1 |-> File("c.tf", <<OneNameBlock("module", "a")>>, TRUE, TRUE)]

\* no file at all, one file of one block, three files one of which has modules
NavDirs == {<<>>, <<NavFiles.a1>>, <<NavFiles.a3, NavFiles.b1, NavFiles.c1>>}

NavInit == dir \in NavDirs /\ NotStarted
NavNext ==
    \/ Load
    \/ Reload
    \/ \E v \in 1..3 : PressView(v)
    \/ PressT
    \/ PressDown
    \/ PressUp
    \/ PressPageDown
    \/ PressPageUp
    \/ PressTab
    \/ \E i \in 0..2, j \in 0..2 : Search(i, j)
    \/ PressEdit
    \/ \E outcome \in EditOutcomes : EditorReturn(outcome)
SpecNav == NavInit /\ [][NavNext]_vars

Init == Loaded(EditBlocks)

Next ==
    \/ \E r \in EditRequests : Locate(r[1], r[2])
    \/ \E r \in EditRequests : PressE(r[1], r[2])
    \/ ExternalModify
    \/ \E e \in Edits(block_content) : EditorExit(e)

Spec == Init /\ [][Next]_vars

LocateInit == Loaded(FlatBlocks)
LocateNext == \E r \in FlatRequests : Locate(r[1], r[2])
SpecLocate == LocateInit /\ [][LocateNext]_vars

NestedInit == Loaded(NestedBlocks)
NestedNext == \E r \in NestedRequests : Locate(r[1], r[2])
SpecNested == NestedInit /\ [][NestedNext]_vars

ScanNext == ScanStep \/ ScanExit
SpecScan == ScanInit /\ [][ScanNext]_vars

EqualsInit ==
    /\ doc \in Docs(EqualsDocBlocks)
    /\ raw_content \in {RenderSep(doc, sep) : sep \in Separators}
    /\ disk = raw_content
    /\ block_type = ""
    /\ block_name = ""
    /\ block_content = <<>>
    /\ original_content = <<>>
    /\ edited_content = <<>>
    /\ success = "none"
    /\ modified = FALSE
    /\ pc = "idle"
    /\ NoScan
    /\ NoLoad
EqualsNext == \E r \in EqualsRequests : Locate(r[1], r[2])
SpecEquals == EqualsInit /\ [][EqualsNext]_vars

LoadInit == dir \in Dirs /\ NotStarted
LoadNext == Load \/ Reload
SpecLoad == LoadInit /\ [][LoadNext]_vars

NotFoundInit == Loaded(BrokenBlocks)
NotFoundNext == \E r \in NotFoundRequests : Locate(r[1], r[2])
SpecNotFound == NotFoundInit /\ [][NotFoundNext]_vars

ListNext ==
    \/ Load
    \/ \E f \in TerraformNames : FileView(f)
    \/ \E c \in Kinds : CategoryView(c)
    \/ ListForSave
SpecList == LoadInit /\ [][ListNext]_vars

UINext ==
    \/ Next
    \/ \E r \in EditRequests : PressS(r[1], r[2])
    \/ \E typed \in SaveInputs, opened \in BOOLEAN : SaveExit(typed, opened)
    \/ PressSlash
    \/ \E t \in SearchTerms : SearchExit(t)
    \/ PressW
    \/ \E result \in BOOLEAN : MenuExit(result)
UIBlocks ==
    {TwoNameBlock("resource", "t", "a", FALSE), EqualsBlock("b"), LocalsBlock("a", 0)}
UIInit == Loaded(UIBlocks)
SpecUI == UIInit /\ [][UINext]_vars

(***************************************************************************)
(* What the claims speak of.                                               *)
(***************************************************************************)
CountOf(text, ch) == Cardinality({i \in 1..Len(text) : text[i] = ch})

\* as many opening as closing braces
Balanced(text) == CountOf(text, "{") = CountOf(text, "}")

\* the number of places where sub occurs in s
Occurrences(s, sub) ==
    Cardinality({i \in 0..(Len(s) - Len(sub)) : SubSeq(s, i + 1, i + Len(sub)) = sub})

\* the places of the blocks of one kind in a document
KindIdx(d, kind) == {k \in 1..Len(d) : d[k].kind = kind}

Greatest(S) == CHOOSE i \in S : \A j \in S : j <= i

\* text[open .. j] has as many opening as closing braces
BalancedSpan(text, open, j) == Balanced(Slice(text, open, j + 1))

\* the nesting opened at `open` is closed later in the text
ClosedLater(text, open) ==
    \E j \in (open + 1)..(Len(text) - 1) : BalancedSpan(text, open, j)

\* the document holds two resource blocks and no more, of one type, the
\* first named a and the second named b, and b is asked for
TwoResourcesCase ==
    /\ pc = "located"
    /\ block_type = "resource"
    /\ block_name = "b"
    /\ Cardinality(KindIdx(doc, "resource")) = 2
    /\ LET i == Least(KindIdx(doc, "resource"))
           j == Greatest(KindIdx(doc, "resource"))
       IN  /\ doc[i].name = "a"
           /\ doc[j].name = "b"
           /\ doc[i].type = doc[j].type

SecondResource == doc[Greatest(KindIdx(doc, "resource"))]

\* C1 as stated: with two resource blocks of one type named a and b, asking
\* for b returns the second block's text, keyword through matching brace.
C1_SecondBlockAnyType ==
    TwoResourcesCase => block_content = SecondResource.text

\* C1 amended: with two resource blocks of one type named a and b, the type
\* not itself being b, asking for b returns the second block's text,
\* keyword through matching brace.
C1_SecondBlock ==
    (TwoResourcesCase /\ SecondResource.type # "b")
        => block_content = SecondResource.text

C1_Witness ==
    /\ TwoResourcesCase
    /\ SecondResource.type # "b"
    /\ SecondResource.depth = 2
    /\ block_content = SecondResource.text

\* C2: when the captured text occurs more than once in the file at commit
\* time, only its first occurrence is replaced by the edited text.
C2_FirstOccurrenceOnly ==
    (pc = "done" /\ success = "ok"
         /\ Occurrences(original_content, block_content) > 1)
        => disk = ReplaceFirst(original_content, block_content, edited_content)

\* C3: when the file was modified during the edit so that the captured text
\* is no longer in it, the edit fails and the file is left as it was.
C3_StaleSpan ==
    (pc = "done" /\ modified /\ ~Contains(original_content, block_content))
        => (success = "fail" /\ disk = original_content)

C3_Witness ==
    /\ pc = "done"
    /\ modified
    /\ IsFound(block_content)
    /\ Contains(raw_content, block_content)
    /\ ~Contains(original_content, block_content)
    /\ original_content # <<>>
    /\ edited_content # block_content
    /\ success = "fail"

\* C4: committing an edit that left a located block's text as it was leaves
\* the file equal to what it was, and to the document the block came from
\* when nothing else wrote the file.
C4_RoundTrip ==
    (pc = "done" /\ IsFound(block_content) /\ edited_content = block_content)
        => /\ disk = original_content
           /\ ~modified => (success = "ok" /\ disk = Render(doc))

C4_Witness ==
    /\ pc = "done"
    /\ IsFound(block_content)
    /\ edited_content = block_content
    /\ ~modified
    /\ success = "ok"
    /\ Len(doc) = 2
    /\ disk = Render(doc)

\* C5: when the nesting opened at the opening brace is closed later in the
\* text, the scan ends on the closing brace where the depth first returns
\* to zero: the text from the opening brace through it has as many opening
\* as closing braces, and no proper prefix of that text has.
C5_MatchingClose ==
    (pc = "scanned" /\ ClosedLater(raw_content, open_brace_pos))
        => /\ bracket_count = 0
           /\ At(raw_content, current_idx) = "}"
           /\ BalancedSpan(raw_content, open_brace_pos, current_idx)
           /\ \A j \in open_brace_pos..(current_idx - 1) :
                  ~BalancedSpan(raw_content, open_brace_pos, j)
           /\ block_content = Slice(raw_content, open_brace_pos, current_idx + 1)

C5_Witness ==
    /\ pc = "scanned"
    /\ bracket_count = 0
    /\ current_idx < Len(raw_content) - 1
    /\ \E i \in (open_brace_pos + 1)..(current_idx - 1) : At(raw_content, i) = "{"

\* C6: when the opening brace is never closed, the scan reads no offset at
\* or past the end of the text and its result is a not-found one.
C6_Unterminated ==
    ~ClosedLater(raw_content, open_brace_pos)
        => /\ last_read < Len(raw_content)
           /\ pc = "scanned" => block_content = NotFoundIncomplete

C6_Witness ==
    /\ pc = "scanned"
    /\ ~ClosedLater(raw_content, open_brace_pos)
    /\ bracket_count > 1
    /\ last_read = Len(raw_content) - 1
    /\ block_content = NotFoundIncomplete

\* C7: a located brace-style text has balanced braces and starts with the
\* block kind keyword, whichever strategy found it.
C7_StartsAtKeyword ==
    (pc = "located" /\ IsFound(block_content)
         /\ ~is_equals_block(FindStart(raw_content, block_type, block_name)))
        => (Balanced(block_content) /\ block_content[1] = block_type)

\* C8: when the only terraform block of the document holds a
\* required_providers block, asking for it returns the inner
\* required_providers { ... } text alone.
C8_RequiredProvidersOnly ==
    (pc = "located" /\ block_type = "terraform" /\ block_name = "required_providers"
         /\ Cardinality(KindIdx(doc, "terraform")) = 1
         /\ doc[Least(KindIdx(doc, "terraform"))].name = "required_providers")
        => block_content = RequiredProvidersText

\* C9: when the document holds a terraform / locals block, asking for that
\* kind returns one of its blocks whole, whatever the depth of its nesting.
C9_AnyDepth ==
    (pc = "located" /\ block_type \in {"terraform", "locals"}
         /\ block_name # "required_providers"
         /\ KindIdx(doc, block_type) # {})
        => \E k \in KindIdx(doc, block_type) : block_content = doc[k].text

\* what C10 says the locals kind returns
LocalsExpected ==
    LET idx == KindIdx(doc, "locals")
        holding == {k \in idx : doc[k].name = block_name}
    IN  IF idx = {} THEN NotFound
        ELSE IF Cardinality(idx) = 1 \/ block_name = "" THEN doc[Least(idx)].text
        ELSE IF holding # {} THEN doc[Least(holding)].text
        ELSE doc[Least(idx)].text

\* C10: for the locals kind the first locals block is returned when there is
\* one only or no name is given, else the first that assigns the name, else
\* the first; not-found when the document holds no locals block.
C10_LocalsChoice ==
    (pc = "located" /\ block_type = "locals") => block_content = LocalsExpected

\* text ends with the whole of `tail`
EndsWith(text, tail) ==
    /\ Len(text) >= Len(tail)
    /\ SubSeq(text, Len(text) - Len(tail) + 1, Len(text)) = tail

\* the place of the first declaration of the requested variable, or -1
RequestedDecl ==
    Least({k \in KindIdx(doc, "variable") : doc[k].name = block_name})

\* the requested variable is declared in equals style in the given form and
\* another block of kind `next` follows it
EqualsCase(form, next) ==
    /\ pc = "located"
    /\ block_type = "variable"
    /\ RequestedDecl # -1
    /\ doc[RequestedDecl].type = form
    /\ RequestedDecl < Len(doc)
    /\ doc[RequestedDecl + 1].kind \in next

\* C11: for a one-line declaration variable "x" = { .. } followed, blank
\* lines or not, by a resource block, the text returned ends with the
\* declaration's last character: nothing of the resource block and no
\* trailing blank line is in it.
C11_SingleLineSpan ==
    EqualsCase("line", {"resource"})
        => /\ EndsWith(block_content, doc[RequestedDecl].text)
           /\ block_content[1] = "variable"
           /\ "resource" \notin {block_content[i] : i \in 2..Len(block_content)}

C11_Witness ==
    /\ EqualsCase("line", {"resource"})
    /\ Contains(raw_content, <<"}", " ", "\n", "\n", " ", "resource">>)
    /\ block_content = doc[RequestedDecl].text

\* C12: for a declaration whose value spans several lines and that is
\* followed by another top-level block, the text returned includes the
\* declaration's last line, its closing brace.
C12_FinalLineKept ==
    EqualsCase("lines", {"resource", "data", "variable"})
        => EndsWith(block_content, doc[RequestedDecl].text)

\* the block has a brace-delimited body that is closed
Complete(b) == CountOf(b.text, "{") > 0 /\ Balanced(b.text)

\* the block is of the requested kind and, for the kinds that are asked for
\* by name, carries the requested name in its name or type position
Mentions(b) ==
    /\ b.kind = block_type
    /\ block_type \in {"terraform", "locals"} \/ block_name \in {b.name, b.type}

\* a request has been made and nothing in the document answers it: every
\* block the request could mean is the document's last and is not complete
NothingToFind ==
    /\ pc \in {"located", "crashed"}
    /\ \A k \in 1..Len(doc) :
           Mentions(doc[k]) => (k = Len(doc) /\ ~Complete(doc[k]))

\* C13: whenever nothing in the text answers the request, the result is one
\* of the not-found values and no exception is raised.
C13_NotFoundNeverRaises ==
    NothingToFind => (pc = "located" /\ block_content \in NotFoundResults)

\* the entry of terraform_data for a file
EntryOf(name) ==
    LET i == Least({j \in 1..Len(terraform_data) : terraform_data[j].file = name})
    IN  IF i = -1 THEN Entry(name, <<>>, FALSE, <<>>) ELSE terraform_data[i]

\* C14: after loading, every file of the directory that can be read has its
\* raw text stored, and for its structure the parser's when the parser
\* returned and the fallback extractor's when the parser raised, whatever
\* happened to the other files.
C14_FallbackPerFile ==
    pc = "idle" =>
        \A k \in 1..Len(dir) :
            (dir[k].name \in TerraformNames /\ dir[k].readable)
                => /\ EntryOf(dir[k].name).raw = Render(dir[k].doc)
                   /\ EntryOf(dir[k].name).parsed
                   /\ EntryOf(dir[k].name).content =
                          IF dir[k].parses
                          THEN ParserStructure(dir[k].doc)
                          ELSE extract_fallback_structure(Render(dir[k].doc))

C14_Witness ==
    /\ pc = "idle"
    /\ Len(dir) = 2
    /\ dir[1].name \in TerraformNames /\ dir[1].readable /\ ~dir[1].parses
    /\ dir[2].name \in TerraformNames /\ dir[2].readable /\ dir[2].parses
    /\ EntryOf(dir[1].name).content # <<>>
    /\ EntryOf(dir[2].name).content = ParserStructure(dir[2].doc)

RECURSIVE CountKeys(_)
CountKeys(dicts) ==
    IF dicts = <<>> THEN 0 ELSE Len(Head(dicts)) + CountKeys(Tail(dicts))

RECURSIVE KeysInFile(_)
KeysInFile(content) ==
    IF content = <<>> THEN 0
    ELSE CountKeys(Head(content).dicts) + KeysInFile(Tail(content))

RECURSIVE KeysInCategory(_, _)
KeysInCategory(data, kind) ==
    IF data = <<>> THEN 0
    ELSE (IF Head(data).parsed /\ HasKind(Head(data).content, kind)
          THEN CountKeys(UnderKind(Head(data).content, kind).dicts)
          ELSE 0) + KeysInCategory(Tail(data), kind)

\* C16: the list a frame shows has exactly one entry per name key one level
\* below each kind, and the list of a category frame is the list the save
\* action computes for the same data and category.
C16_OneEntryPerKey ==
    (pc = "idle" /\ selected # "") =>
        /\ Len(view_items) = IF selected \in Kinds
                             THEN KeysInCategory(terraform_data, selected)
                             ELSE KeysInFile(ContentOf(terraform_data, selected))
        /\ (save_items # <<>>) => view_items = save_items

\* C17: when the parser fails on a file that holds a block of a known kind,
\* the block list the file view enumerates from the fallback structure of
\* that file is not empty.
FellBack(f) == f.name \in TerraformNames /\ f.readable /\ ~f.parses

C17_FallbackListNonEmpty ==
    \A k \in 1..Len(dir) :
        (pc = "idle" /\ selected = dir[k].name /\ FellBack(dir[k]) /\ dir[k].doc # <<>>)
            => view_items # <<>>

\* C18: when the editor exits with success, the in-memory text is read again
\* from the file and equals what was just written; when it exits with
\* failure, the in-memory text and the parsed data are what they were.
C18_ReloadAfterEdit ==
    [][(pc = "editing" /\ pc' = "done") =>
          /\ (success' = "ok") => raw_content' = disk'
          /\ (success' = "fail") =>
                 (raw_content' = raw_content /\ terraform_data' = terraform_data)]_vars

C18_Witness ==
    /\ pc = "done"
    /\ success = "ok"
    /\ raw_content = disk
    /\ raw_content # Render(doc)

\* C19: locating and searching change neither the in-memory text nor the
\* file; the program changes the file only when an edit is committed with
\* success, and then by substituting the captured block text inside the
\* current file content.
C19_OnlyEditCommitWrites ==
    [][/\ (pc' = "located" \/ pc' = "searching" \/ pc = "searching")
            => UNCHANGED <<raw_content, disk>>
       /\ (disk' # disk /\ modified' = modified)
            => /\ pc = "editing"
               /\ success' = "ok"
               /\ disk' = ReplaceAll(disk, block_content, edited_content')]_vars

\* C20: a frame is drawn only in curses mode: whenever the program is back
\* at the top of its loop after the editor, the save prompt, the search
\* prompt or the workspace menu, curses mode has been restored.
FramePositions == {"idle", "located", "done"}

C20_CursesRestored == (pc \in FramePositions) => screen = "curses"

C20_Witness ==
    /\ pc = "idle"
    /\ block_type # ""
    /\ screen = "curses"

\* C29: the text returned for an equals-style declaration that is followed
\* by a top-level block of one of the eight kinds ends before that block:
\* the keyword of the following block is not in it.
C29_EndsBeforeNextBlock ==
    \A form \in EqualsForms :
        EqualsCase(form, Kinds)
            => doc[RequestedDecl + 1].kind
                   \notin {block_content[i] : i \in 2..Len(block_content)}

\* the places of the data blocks that have the requested name as their
\* type or as their instance name
DataNamed == {i \in KindIdx(doc, "data") : block_name \in {doc[i].type, doc[i].name}}

\* C24: asking for a data block by its type or by its instance name finds
\* it: the result is not a not-found value and runs through the matching
\* closing brace of the first data block of that type or name.
C24_DataByEitherName ==
    (pc = "located" /\ block_type = "data" /\ DataNamed # {})
        => /\ IsFound(block_content)
           /\ Balanced(block_content)
           /\ EndsWith(block_content, doc[Least(DataNamed)].text)

C24_Witness ==
    /\ pc = "located"
    /\ block_type = "data"
    /\ block_name = "t"
    /\ DataNamed # {}
    /\ Least(DataNamed) > 1
    /\ EndsWith(block_content, doc[Least(DataNamed)].text)

\* the matches of the listed patterns in the text shown, for the block
\* requested: <<start offset, place of the pattern in the list>>
ListedMatches ==
    LET patterns == Patterns(block_type, block_name) IN
    UNION {{<<m[1], k>> : m \in Range(FindIter(raw_content, patterns[k].items, 0))} :
               k \in 1..Len(patterns)}

EarliestStart == Least({m[1] : m \in ListedMatches})

\* the first pattern of the list that matches at the earliest start
KeptPattern ==
    Patterns(block_type, block_name)[Least({m[2] : m \in {e \in ListedMatches : e[1] = EarliestStart}})]

\* text begins with the whole of `head`
StartsWith(text, head) ==
    /\ Len(text) >= Len(head)
    /\ SubSeq(text, 1, Len(head)) = head

\* C23: when listed patterns match, the match kept is the one of smallest
\* start offset over all patterns and occurrences, the style is that of the
\* first pattern of the list matching there, and the text returned is the
\* one extracted from that offset in that style: of two declarations of one
\* identity the first in the text.
C23_EarliestMatchKept ==
    (pc = "located" /\ ListedMatches # {})
        => /\ FindStart(raw_content, block_type, block_name)
                  = [start_idx |-> EarliestStart,
                     matched |-> IF KeptPattern.eq THEN "equals" ELSE "brace"]
           /\ block_content = IF KeptPattern.eq
                              THEN ExtractEquals(raw_content, EarliestStart)
                              ELSE ExtractBraces(raw_content, EarliestStart)
           /\ \/ StartsWith(block_content, doc[RequestedDecl].text)
              \/ StartsWith(doc[RequestedDecl].text, block_content)
              \/ block_type # "variable"

\* an equals-style declaration of a comes first and a brace-style one second
C23_Witness ==
    /\ pc = "located"
    /\ block_name = "a"
    /\ Cardinality({m[1] : m \in ListedMatches}) = 2
    /\ KeptPattern.eq
    /\ block_content = doc[1].text

\* the file is accepted by the parser and holds two resource blocks, of
\* one type and of different instance names, and nothing else
TwoResourcesParsed(f) ==
    /\ f.name \in TerraformNames /\ f.readable /\ f.parses
    /\ Len(f.doc) = 2
    /\ f.doc[1].kind = "resource" /\ f.doc[2].kind = "resource"
    /\ f.doc[1].type = f.doc[2].type
    /\ f.doc[1].name # f.doc[2].name

\* file_view, lines 552-571: the text shown for an entry of the block list
EntryText(f, entry) == extract_block_content(Render(f.doc), entry[1], entry[2])

\* C26: for a parsed file with two resource blocks of one type and
\* different instance names, the file view lists two entries and they
\* resolve to two different block texts, each entry to its own block.
C26_EntriesResolveApart ==
    \A k \in 1..Len(dir) :
        (pc = "idle" /\ selected = dir[k].name /\ TwoResourcesParsed(dir[k]))
            => /\ Len(view_items) = 2
               /\ EntryText(dir[k], view_items[1]) = dir[k].doc[1].text
               /\ EntryText(dir[k], view_items[2]) = dir[k].doc[2].text

\* C27: a not-found result is never treated as block text: neither the
\* editor nor the save prompt is started with it as content.
C27_NotFoundNotText ==
    (pc \in {"editing", "saving"}) => IsFound(block_content)

\* C25: in the file view files[selected_index] is read only when
\* 0 <= selected_index < len(files); a frame of the file view never ends the
\* program with an IndexError, not even with no file to list.
C25_FileReadInRange ==
    (pc \in {"idle", "crashed"} /\ view = 1 /\ ReadsFile(terraform_data, selected_index))
        => (0 <= selected_index /\ pc # "crashed")

\* module_view, lines 1037-1047: the modules of the file selected in view 3
ModulesOf(data, i) ==
    IF 0 <= i /\ i < Len(FilesWithModules(data))
    THEN LET m == UnderKind(ContentOf(data, FilesWithModules(data)[i + 1]), "module")
         IN  IF m.form = "list" THEN ListKeys(m.dicts) ELSE Keys(m.dicts[1])
    ELSE <<>>

\* what the second column of the category view or the module view lists
SecondColumn ==
    IF view = 2
    THEN (IF 0 <= selected_index /\ selected_index < Len(Categories)
          THEN CategoryItems(terraform_data, Categories[selected_index + 1])
          ELSE <<>>)
    ELSE ModulesOf(terraform_data, selected_index)

\* C21: in the category view and the module view too, Down moves the
\* selection of the first column and Tab moves to the second column and
\* selects an item there, so that a state with selected_block_index >= 0
\* is reached and 's' can save the item.
C21_NavigationInEveryView ==
    (pc = "idle" /\ view \in {2, 3} /\ active_column = 0 /\ SecondColumn # <<>>)
        => /\ ENABLED (PressTab /\ active_column' = 1 /\ selected_block_index' >= 0)
           /\ (view = 2 => ENABLED (PressDown /\ selected_index' = selected_index + 1))

\* a block of the selected file is selected
BlockSelected ==
    /\ 0 <= selected_block_index
    /\ selected_block_index < Len(BlocksOf(terraform_data, selected_index))

\* C22: in the file view 'e' launches the editor whenever a block is
\* selected, and the editor is launched only from the file view with a
\* block selected.
C22_EditWhenBlockSelected ==
    /\ (pc = "idle" /\ view = 1 /\ BlockSelected) => ENABLED (PressEdit /\ pc' = "editing")
    /\ (pc = "editing") => (view = 1 /\ BlockSelected)

\* C28: in the file view, whenever a key is about to be handled and the
\* block column or the content column is active, a block of the selected
\* file is selected.
C28_BlockColumnHasBlock ==
    (pc = "idle" /\ view = 1 /\ active_column \in {1, 2}) => BlockSelected

\* row `index` is among the rows shown from `offset` on
InWindow(index, offset) == offset <= index /\ index < offset + MaxRows

\* C30: in the file view the selected file is inside the window of the
\* file column and a selected block inside the window of the block column.
C30_SelectionVisible ==
    (pc = "idle" /\ view = 1)
        => /\ InWindow(selected_index, file_scroll_offset)
           /\ (selected_block_index >= 0
                   => InWindow(selected_block_index, block_scroll_offset))

====
